---- MODULE Spec2Model ----
(***************************************************************************)
(* The chat session driver of q_cli (crates/q_cli/src/cli/chat/mod.rs):    *)
(* the ChatState loop of try_chat with its error handler, prompt_user,     *)
(* handle_input, validate_tools, tool_use_execute and handle_response.     *)
(*                                                                         *)
(* The three operations that try_chat races against the interrupt source   *)
(* are split at their await points (phase, idx); the other two run as one  *)
(* step.  ConversationState and Command::parse live in files that are not  *)
(* part of the sources at hand: they are modelled from the specification   *)
(* text (sections 4.B and 4.F).  Writes to the output are taken to succeed *)
(* inside the operations; the error handler's own writes may fail, which   *)
(* makes try_chat return the I/O error (the `?` of lines 483-521).         *)
(***************************************************************************)
EXTENDS Integers, Sequences, FiniteSets, TLC

\* ------------------------------------------------------------------ bounds
\* Lines of user input the input source delivers in one session.
MaxLines == 2
\* Successful send_message calls (model responses) in one session.
MaxSends == 2
\* Tool uses in one model response.
MaxTools == 2
\* Model responses of one session that carry tool uses.
MaxRounds == 1

\* ------------------------------------------------------------- basic values
NoTools == [some |-> FALSE, list |-> <<>>]

SomeTools(l) == [some |-> TRUE, list |-> l]

\* Option::unwrap_or_default on Option<Vec<QueuedTool>>.
UnwrapOrDefault(t) == IF t.some THEN t.list ELSE <<>>

Idle == [retry |-> FALSE, id |-> 0]

RetryInProgress(id) == [retry |-> TRUE, id |-> id]

\* message ids: 0 stands for None, -1 for the text "No utterance id found".
NoUtteranceId == -1

IssueText == "I would like to report an issue or make a feature request"

InterruptedText == "Tool uses were interrupted, waiting for the next user prompt"

InterruptReason == "The user interrupted the tool execution."

TimeoutAssistantText == "Response timed out - message took too long to generate"

TimeoutUserText == "You took too long to respond - try to split up the work into smaller steps."

\* The lines a user may type (and the initial input of the command line).
Inputs == {"y", "Y", "hello", "!ls", "/clear", "/help", "/issue",
           "/issue broken", "/acceptall", "/quit", "/profile list",
           "/context show", "/bogus"}

\* Command::parse: the variant of Command an input line yields, "Err" for a
\* line the parser rejects.
ParseCommand(input) ==
    CASE input = "!ls" -> "Execute"
      [] input = "/clear" -> "Clear"
      [] input = "/help" -> "Help"
      [] input \in {"/issue", "/issue broken"} -> "Issue"
      [] input = "/acceptall" -> "AcceptAll"
      [] input = "/quit" -> "Quit"
      [] input = "/profile list" -> "Profile"
      [] input = "/context show" -> "Context"
      [] input = "/bogus" -> "Err"
      [] OTHER -> "Ask"

\* Command::parse: the prompt of Command::Issue { prompt }.
IssuePrompt(input) ==
    IF input = "/issue broken" THEN [some |-> TRUE, text |-> "broken"]
    ELSE [some |-> FALSE, text |-> ""]

\* ------------------------------------------------------------ conversation
\* A turn of the conversation history.
UserTurn(text, results) ==
    [role |-> "user", text |-> text, tool_uses |-> <<>>, results |-> results]

AssistantTurn(text, ids) ==
    [role |-> "assistant", text |-> text, tool_uses |-> ids, results |-> <<>>]

ToolResult(id, status) == [tool_use_id |-> id, status |-> status]

\* ConversationState::append_new_user_message
append_new_user_message(h, text) == Append(h, UserTurn(text, <<>>))

\* ConversationState::push_assistant_message
push_assistant_message(h, text, ids) == Append(h, AssistantTurn(text, ids))

\* ConversationState::add_tool_results
add_tool_results(h, results) == Append(h, UserTurn("", results))

\* ConversationState::abandon_tool_use: one Error result per tool, with the
\* reason as the text of the turn.
abandon_tool_use(h, tools, reason) ==
    Append(h, UserTurn(reason,
                       [i \in 1..Len(tools) |-> ToolResult(tools[i].id, "Error")]))

\* ConversationState::as_sendable_conversation_state: the snapshot sent.
as_sendable_conversation_state(h) == h

\* ConversationState::clear
clear(h) == <<>>

\* The index of the last turn of h with the given role, 0 when there is none.
LastIndex(h, role) ==
    LET I == {i \in 1..Len(h) : h[i].role = role}
    IN  IF I = {} THEN 0 ELSE CHOOSE i \in I : \A j \in I : j <= i

\* Every tool use id of uses has a result in results.
Answered(uses, results) ==
    \A j \in 1..Len(uses) :
        \E k \in 1..Len(results) : results[k].tool_use_id = uses[j]

\* What fix_history repairs: the last assistant turn has tool uses without
\* matching results in the turn after it, or the last user turn has tool
\* results and no assistant turn with tool uses just before it.
OffendingTail(h) ==
    LET a == LastIndex(h, "assistant")
        u == LastIndex(h, "user")
    IN  \/ /\ a > 0
           /\ h[a].tool_uses # <<>>
           /\ \/ a = Len(h)
              \/ ~Answered(h[a].tool_uses, h[a + 1].results)
        \/ /\ u > 0
           /\ h[u].results # <<>>
           /\ \/ u = 1
              \/ h[u - 1].role # "assistant"
              \/ h[u - 1].tool_uses = <<>>

\* fix_history when one offending trailing entry was dropped and no more.
fix_history_once(h) ==
    IF OffendingTail(h) THEN SubSeq(h, 1, Len(h) - 1) ELSE h

RECURSIVE fix_history(_)
\* ConversationState::fix_history: trailing entries are dropped until the
\* tail is in order.
fix_history(h) ==
    IF OffendingTail(h) THEN fix_history(SubSeq(h, 1, Len(h) - 1)) ELSE h

\* ------------------------------------------------------------ the terminal
\* queue!(out, ..): commands are written that leave the cursor and the style
\* as they found them (text, a colour that is reset again, a line cleared).
Queued(o) == [o EXCEPT !.queued = TRUE]

\* execute!(out, ..) and out.flush(): nothing written is held back.
Flushed(o) == [o EXCEPT !.queued = FALSE]

\* queue!(out, cursor::Hide)
CursorHide(o) == [o EXCEPT !.hidden = TRUE, !.queued = TRUE]

\* queue!(out, cursor::Show)
CursorShow(o) == [o EXCEPT !.hidden = FALSE, !.queued = TRUE]

\* queue!(out, style::SetAttribute(Attribute::Reset)): SGR 0, which switches
\* every attribute and colour off.
AttributeReset(o) == [o EXCEPT !.styled = FALSE, !.queued = TRUE]

\* A write that fails part of the way: with styles among its commands, bold
\* or a colour may be left on; some of it may be held back.
FailedWrite(o, styles) ==
    {[hidden |-> o.hidden, styled |-> s, queued |-> q] :
        s \in (IF styles THEN BOOLEAN ELSE {o.styled}), q \in BOOLEAN}

\* Drop for ChatContext, lines 313-325: in interactive mode column 0, the
\* attribute and colour reset and cursor::Show are queued; the output is
\* flushed in every mode.  Errors of both are ignored (`.ok()`).
DropOutput(o, i) == Flushed(IF i THEN CursorShow(AttributeReset(o)) ELSE o)

\* ------------------------------------------------------------------- state
VARIABLES
    interactive,            \* ChatContext.interactive
    initial_input,          \* ChatContext.initial_input: [some, text]
    conversation_id,        \* ConversationState::conversation_id()
    accept_all,             \* ChatContext.accept_all
    spinner,                \* ChatContext.spinner is Some
    history,                \* ConversationState: the turns
    message_id,             \* ConversationState::message_id()
    tool_use_status,        \* ChatContext.tool_use_status
    telemetry,              \* keys of ChatContext.tool_use_telemetry_events
    failed_request_ids,     \* ChatContext: request ids of the receive errors
    output,                 \* ChatContext.output: what the commands written
                            \* to it make of the terminal: [hidden, styled,
                            \* queued]
    state,                  \* the ChatState try_chat consumes next; "Error"
                            \* while `result` of line 441 is Err(e)
    tool_uses,              \* the tool list that ChatState carries: [some, list]
    skip_printing_tools,    \* PromptUser.skip_printing_tools
    input,                  \* HandleInput.input
    ctrl_c,                 \* prompt_user: ctrl_c
    batch,                  \* ExecuteTools: how its list got there
    last_error,             \* the e of Err(e), line 443
    phase,                  \* await point inside the raced operation
    idx,                    \* tools of the list already validated / invoked
    queued_tools,           \* validate_tools: queued_tools
    tool_results,           \* validate_tools / tool_use_execute: tool_results
    recv_tools,             \* handle_response: tool_uses
    tool_name_being_recvd,  \* handle_response: tool_name_being_recvd is Some
    buf_empty,              \* handle_response: buf.is_empty()
    stream,                 \* handle_response: events not yet received
    result,                 \* what try_chat returned: "running", "Ok", "Err"
    sends,                  \* number of send_message calls that returned Ok
    rounds,                 \* number of responses with tool uses among them
    sent,                   \* the snapshot given to the last send_message call
    lines,                  \* number of lines read from the input source
    invoked,                \* tool_use_ids whose invoke was called, in order
    refused,                \* validate_tools has returned NonInteractiveToolApproval
    raised,                 \* try_chat: the Err(e) the error handler is given
    transcript,             \* conversation_state: texts append_transcript took
    model_responses,        \* create_stream: the script it is given
    mock,                   \* create_stream: what became of the call
    events,                 \* handle_response: what parser.recv() will yield
    arrived,                \* handle_response: what parser.recv() has yielded
    buf,                    \* handle_response: buf
    offset,                 \* handle_response: offset
    ended,                  \* handle_response: ended
    at,                     \* handle_response: where it is in its loop
    subject,                \* truncate_safe: s
    max_bytes,              \* truncate_safe: max_bytes
    truncated               \* truncate_safe: what the calls returned

\* The state of the operations that are checked on their own, outside a
\* session: a session leaves it alone.
printing == <<raised, transcript>>

mocking == <<model_responses, mock>>

rendering == <<events, arrived, buf, offset, ended, at>>

truncating == <<subject, max_bytes, truncated>>

detached == <<printing, mocking, rendering, truncating>>

env == <<interactive, initial_input, conversation_id, detached>>

ctx == <<accept_all, spinner, history, message_id, tool_use_status, telemetry,
         failed_request_ids>>

ctl == <<state, tool_uses, skip_printing_tools, input, ctrl_c, batch, last_error>>

loc == <<phase, idx, queued_tools, tool_results, recv_tools,
         tool_name_being_recvd, buf_empty, stream>>

aux == <<result, sends, rounds, sent, lines, invoked, refused>>

vars == <<env, ctx, ctl, loc, aux, output>>

NoBatch == [via |-> "none", accept_all |-> FALSE, answer |-> ""]

NoError == [kind |-> "none", some |-> FALSE, list |-> <<>>]

NoInput == [some |-> FALSE, text |-> ""]

NoReport == [kind |-> "none", msg |-> <<>>]

NotCreated == [status |-> "none", streams |-> <<>>]

NoSlice == [ok |-> TRUE, value |-> <<>>]

NotTruncated == [calls |-> 0, first |-> NoSlice, second |-> NoSlice]

\* Nothing is running outside the session.
NoPrintError ==
    /\ raised = NoReport
    /\ transcript = <<>>

NoCreateStream ==
    /\ model_responses = <<>>
    /\ mock = NotCreated

NoRender ==
    /\ events = <<>>
    /\ arrived = <<>>
    /\ buf = <<>>
    /\ offset = 0
    /\ ended = FALSE
    /\ at = "none"

NoTruncate ==
    /\ subject = <<>>
    /\ max_bytes = 0
    /\ truncated = NotTruncated

Detached == NoPrintError /\ NoCreateStream /\ NoRender /\ NoTruncate

\* ChatContext::new, lines 276-305.
ChatContextNew ==
    /\ conversation_id = "conversation-1"
    /\ interactive \in BOOLEAN
    /\ accept_all \in BOOLEAN
    /\ initial_input \in {NoInput}
                         \cup {[some |-> TRUE, text |-> t] :
                                  t \in {"hello", "/acceptall", "!ls"}}
    /\ spinner = FALSE
    /\ history = <<>>
    /\ message_id = 0
    /\ tool_use_status = Idle
    /\ telemetry = {}
    /\ failed_request_ids = <<>>
    /\ output = [hidden |-> FALSE, styled |-> FALSE, queued |-> FALSE]
    /\ state = "Start"
    /\ tool_uses = NoTools
    /\ skip_printing_tools = FALSE
    /\ input = ""
    /\ ctrl_c = FALSE
    /\ batch = NoBatch
    /\ last_error = NoError
    /\ phase = "none"
    /\ idx = 0
    /\ queued_tools = <<>>
    /\ tool_results = <<>>
    /\ recv_tools = <<>>
    /\ tool_name_being_recvd = FALSE
    /\ buf_empty = TRUE
    /\ stream = <<>>
    /\ result = "running"
    /\ sends = 0
    /\ rounds = 0
    /\ sent = <<>>
    /\ lines = 0
    /\ invoked = <<>>
    /\ refused = FALSE

Init == ChatContextNew /\ Detached

\* ----------------------------------------------------- the model's responses
NoRequestId == [some |-> FALSE, id |-> 0]

Event(ev, id, ids, mid) ==
    [ev |-> ev, id |-> id, ids |-> ids, mid |-> mid, request_id |-> NoRequestId]

\* RecvError { request_id: Option<String>, source }: the request of the n-th
\* send_message has the id n.
RequestIds(n) == {NoRequestId, [some |-> TRUE, id |-> n]}

RecvError(ev, id, ids, mid, request_id) ==
    [Event(ev, id, ids, mid) EXCEPT !.request_id = request_id]

\* The events of n complete tool uses with ids base+1 .. base+n.
RECURSIVE ToolEvents(_, _)
ToolEvents(base, n) ==
    IF n = 0 THEN <<>>
    ELSE ToolEvents(base, n - 1)
             \o <<Event("ToolUseStart", base + n, <<>>, 0),
                  Event("ToolUse", base + n, <<>>, 0)>>

TextEvents(k) == IF k = 0 THEN <<>> ELSE <<Event("AssistantText", 0, <<>>, 0)>>

\* What ResponseParser::recv yields for one response: text, n tool uses,
\* then EndStream with the assembled message, or a receive error.
TextStreams(mid) ==
    {TextEvents(k) \o <<Event("EndStream", 0, <<>>, mid)>> : k \in 0..1}
    \cup {TextEvents(k) \o <<RecvError(e, 0, <<>>, 0, r)>> :
        k \in 0..1, e \in {"StreamTimeout", "Other"}, r \in RequestIds(mid)}

\* The responses with tool uses.  An UnexpectedToolUseEos is taken at the
\* first tool use of a response.
ToolStreams(base, mid) ==
    {TextEvents(k) \o ToolEvents(base, n)
         \o <<Event("EndStream", 0, [i \in 1..n |-> base + i], mid)>> :
        k \in 0..1, n \in 1..MaxTools}
    \cup {TextEvents(k) \o ToolEvents(base, n) \o <<RecvError(e, 0, <<>>, 0, r)>> :
        k \in 0..1, n \in 1..(MaxTools - 1), e \in {"StreamTimeout", "Other"},
        r \in RequestIds(mid)}
    \cup {TextEvents(k)
         \o <<Event("ToolUseStart", base + 1, <<>>, 0),
              RecvError("UnexpectedToolUseEos", base + 1, <<base + 1>>, mid, r)>> :
        k \in 0..1, r \in RequestIds(mid)}


\* ---------------------------------------------------------------- helpers
\* The locals of an operation that starts at await point ph on stream s.
Locals(ph, s) ==
    /\ phase' = ph
    /\ idx' = 0
    /\ queued_tools' = <<>>
    /\ tool_results' = <<>>
    /\ recv_tools' = <<>>
    /\ tool_name_being_recvd' = FALSE
    /\ buf_empty' = TRUE
    /\ stream' = s

Goto(st, tu, skip, text, b, e) ==
    /\ state' = st
    /\ tool_uses' = tu
    /\ skip_printing_tools' = skip
    /\ input' = text
    /\ ctrl_c' = FALSE
    /\ batch' = b
    /\ last_error' = e

\* next_state = Some(ChatState::PromptUser { tool_uses, skip_printing_tools })
GotoPromptUser(tu, skip) ==
    Goto("PromptUser", tu, skip, "", NoBatch, NoError) /\ Locals("none", <<>>)

\* next_state = Some(ChatState::HandleInput { input, tool_uses })
GotoHandleInput(text, tu) ==
    Goto("HandleInput", tu, FALSE, text, NoBatch, NoError) /\ Locals("none", <<>>)

\* next_state = Some(ChatState::ExecuteTools(list)); b tells how it got there.
GotoExecuteTools(list, b) ==
    Goto("ExecuteTools", SomeTools(list), FALSE, "", b, NoError)
        /\ Locals("invoke", <<>>)

\* next_state = Some(ChatState::ValidateTools(list))
GotoValidateTools(list) ==
    Goto("ValidateTools", SomeTools(list), FALSE, "", NoBatch, NoError)
        /\ Locals("validate", <<>>)

\* next_state = Some(ChatState::HandleResponseStream(response))
GotoHandleResponseStream(s) ==
    Goto("HandleResponseStream", NoTools, FALSE, "", NoBatch, NoError)
        /\ Locals("recv", s)

\* next_state = Some(ChatState::Exit)
GotoExit ==
    Goto("Exit", NoTools, FALSE, "", NoBatch, NoError) /\ Locals("none", <<>>)

\* Drop for ChatContext, lines 308-327: the spinner is stopped and the
\* output, left as o, is reset and flushed; the context and all it owns are
\* gone.
DropChatContext(o) ==
    /\ spinner' = FALSE
    /\ output' = DropOutput(o, interactive)
    /\ accept_all' = FALSE
    /\ history' = <<>>
    /\ message_id' = 0
    /\ tool_use_status' = Idle
    /\ telemetry' = {}
    /\ failed_request_ids' = <<>>

\* try_chat returns r with the output left as o, and chat drops the context,
\* lines 213-216.
Return(r, o) ==
    /\ Goto("Returned", NoTools, FALSE, "", NoBatch, NoError)
    /\ Locals("none", <<>>)
    /\ result' = r
    /\ DropChatContext(o)

Error(kind) == [kind |-> kind, some |-> FALSE, list |-> <<>>]

\* ChatError::Interrupted { tool_uses }
Interrupted(tu) == [kind |-> "Interrupted", some |-> tu.some, list |-> tu.list]

\* The operation of the state returns Err(e): `result` of line 441.
Raise(e) ==
    Goto("Error", NoTools, FALSE, "", NoBatch, e) /\ Locals("none", <<>>)

\* ------------------------------------------------------------ send_message
\* The responses with tool uses one session gets: a session without a
\* prompt reads no line, and gets one more of them.
RoundCap == IF interactive THEN MaxRounds ELSE MaxRounds + 1

\* client.send_message(as_sendable_conversation_state()) returns Ok: the
\* response stream of the model's next answer.
SendOk(h) ==
    /\ sends < MaxSends
    /\ sends' = sends + 1
    /\ sent' = as_sendable_conversation_state(h)
    /\ \/ /\ \E s \in TextStreams(sends + 1) : GotoHandleResponseStream(s)
          /\ rounds' = rounds
       \/ /\ rounds < RoundCap
          /\ \E s \in ToolStreams(sends * MaxTools, sends + 1) :
                 GotoHandleResponseStream(s)
          /\ rounds' = rounds + 1

\* client.send_message(...) returns Err: `?` returns it.
SendErr(h) ==
    /\ UNCHANGED <<sends, rounds>>
    /\ sent' = as_sendable_conversation_state(h)
    /\ Raise(Error("Client"))

\* ------------------------------------------------------ try_chat, the loop
\* TryChatStart when the initial input was dropped and the prompt came first.
TryChatStart_prompt_first ==
    /\ state = "Start"
    /\ GotoPromptUser(NoTools, TRUE)
    /\ initial_input' = NoInput
    /\ output' = IF interactive THEN Flushed(output) ELSE output
    /\ UNCHANGED <<interactive, conversation_id, detached, ctx, aux>>

\* Lines 373-399: the first state of the loop.  The greeting write, the
\* installation of the signal handler (lines 374, 377) and, once the initial
\* input is taken, its echo (lines 386-393) may fail: `?` returns the error.
TryChatStart ==
    /\ state = "Start"
    /\ \/ /\ IF initial_input.some
             THEN GotoHandleInput(initial_input.text, NoTools)
             ELSE GotoPromptUser(NoTools, TRUE)
          /\ initial_input' = NoInput
          /\ output' = IF interactive THEN Flushed(output) ELSE output
          /\ UNCHANGED <<interactive, conversation_id, detached, ctx, aux>>
       \/ /\ Return("Err", output)
          /\ UNCHANGED <<env, sends, rounds, sent, lines, invoked, refused>>
       \/ /\ interactive
          /\ initial_input.some
          /\ \E o \in FailedWrite(output, TRUE) : Return("Err", o)
          /\ initial_input' = NoInput
          /\ UNCHANGED <<interactive, conversation_id, detached, sends,
                         rounds, sent, lines, invoked, refused>>

\* ChatState::Exit => return Ok(())
ExitLoop ==
    /\ state = "Exit"
    /\ Return("Ok", output)
    /\ UNCHANGED <<env, sends, rounds, sent, lines, invoked, refused>>

\* InterruptRepair without the push_assistant_message of lines 495-501.
InterruptRepair_abandon_only(h, e) ==
    IF e.kind = "Interrupted" /\ e.some
    THEN as_sendable_conversation_state(
             abandon_tool_use(h, e.list, InterruptReason))
    ELSE h

\* The Interrupted arm, lines 486-504: with a tool list, the tools are
\* abandoned and the synthetic assistant turn is pushed.
InterruptRepair(h, e) ==
    IF e.kind = "Interrupted" /\ e.some
    THEN push_assistant_message(
             as_sendable_conversation_state(
                 abandon_tool_use(h, e.list, InterruptReason)),
             InterruptedText, <<>>)
    ELSE h

\* HandlerHistory without the fix_history of line 524.
HandlerHistory_unfixed(h, e) == InterruptRepair(h, e)

\* The history the handler leaves, lines 485-524.
HandlerHistory(h, e) == fix_history(InterruptRepair(h, e))

\* Lines 477-484: `if self.interactive && self.spinner.is_some()`.
HandlerSpinner(sp) == IF interactive /\ sp THEN FALSE ELSE sp

\* Lines 525-528: the tool list of the PromptUser state the handler goes to.
HandlerNextTools(e) == NoTools

\* Lines 444-473 and 486-522: what the handler writes.  An interrupt gets two
\* newlines; every other error goes through print_error, which writes bold
\* red, the text, then the attribute and colour reset, and flushes.
HandlerOutput(o, e) ==
    IF e.kind = "Interrupted" THEN Flushed(o) ELSE Flushed(AttributeReset(o))

\* Lines 443-529: Err(e).  When a write of the handler to the output fails,
\* its `?` makes try_chat return the I/O error.
ErrorHandler ==
    /\ state = "Error"
    /\ LET o == IF interactive /\ spinner THEN Queued(output) ELSE output
       IN  \/ /\ spinner' = HandlerSpinner(spinner)
              /\ output' = HandlerOutput(o, last_error)
              /\ history' = HandlerHistory(history, last_error)
              /\ message_id' = IF last_error.kind = "Interrupted" /\ last_error.some
                               THEN 0 ELSE message_id
              /\ GotoPromptUser(HandlerNextTools(last_error), FALSE)
              /\ UNCHANGED <<accept_all, failed_request_ids, tool_use_status,
                             telemetry, result>>
           \/ \E f \in FailedWrite(o, last_error.kind # "Interrupted") :
                  Return("Err", f)
    /\ UNCHANGED <<env, sends, rounds, sent, lines, invoked, refused>>

\* ------------------------------------------------------------- PromptUser
\* CannotPrompt when PromptUser returned in every mode.
CannotPrompt_always(i) == TRUE

\* CannotPrompt when every mode showed the prompt.
CannotPrompt_never(i) == FALSE

\* Line 415: `if !self.interactive`, "Cannot prompt in non-interactive mode
\* no matter what."
CannotPrompt(i) == ~i

\* Lines 415-417: no prompt in non-interactive mode, try_chat returns Ok(()).
PromptNonInteractive ==
    /\ state = "PromptUser"
    /\ CannotPrompt(interactive)
    /\ Return("Ok", output)
    /\ UNCHANGED <<env, sends, rounds, sent, lines, invoked, refused>>

\* Lines 540-561: prompt_user begins with execute!(cursor::Show); what it
\* prints about the pending tools and the hint after an EOF are flushed too.
PromptOutput(o) == Flushed(CursorShow(o))

\* prompt_user, read_line yields Some(line).
PromptReadLine ==
    /\ state = "PromptUser"
    /\ ~CannotPrompt(interactive)
    /\ lines < MaxLines
    /\ lines' = lines + 1
    /\ \E line \in Inputs :
           GotoHandleInput(line, SomeTools(UnwrapOrDefault(tool_uses)))
    /\ output' = PromptOutput(output)
    /\ UNCHANGED <<env, ctx, result, sends, rounds, sent, invoked, refused>>

\* PromptEof when the first EOF already led to Exit.
PromptEof_one_strike ==
    /\ state = "PromptUser"
    /\ ~CannotPrompt(interactive)
    /\ GotoExit
    /\ output' = PromptOutput(output)
    /\ UNCHANGED <<env, ctx, aux>>

\* prompt_user, read_line yields None: the hint first, Exit the second time.
PromptEof ==
    /\ state = "PromptUser"
    /\ ~CannotPrompt(interactive)
    /\ IF ctrl_c
       THEN GotoExit
       ELSE /\ ctrl_c' = TRUE
            /\ UNCHANGED <<state, tool_uses, skip_printing_tools, input, batch,
                           last_error, loc>>
    /\ output' = PromptOutput(output)
    /\ UNCHANGED <<env, ctx, aux>>

\* prompt_user, read_line fails: ChatError::Readline.
PromptReadlineError ==
    /\ state = "PromptUser"
    /\ ~CannotPrompt(interactive)
    /\ Raise(Error("Readline"))
    /\ output' = PromptOutput(output)
    /\ UNCHANGED <<env, ctx, aux>>

\* ------------------------------------------------------------ HandleInput
\* IsApproval when any prompt approved the pending tools.
IsApproval_any(prompt, tools) == tools # <<>>

\* IsApproval when `y` approved whether or not anything was pending.
IsApproval_no_pending(prompt, tools) == prompt \in {"y", "Y"}

\* Line 618: `y` or `Y` with pending tools approves them.
IsApproval(prompt, tools) == prompt \in {"y", "Y"} /\ tools # <<>>

\* Lines 631-635: the user turn an Ask adds, the message or the abandoned
\* tool uses.
AskHistory(h, text, tools) ==
    IF tools = <<>>
    THEN append_new_user_message(h, text)
    ELSE abandon_tool_use(h, tools, text)

\* HandleInputParseError when the pending tools were forgotten.
HandleInputParseError_drops_tools ==
    /\ state = "HandleInput"
    /\ ParseCommand(input) = "Err"
    /\ GotoPromptUser(NoTools, TRUE)
    /\ output' = Flushed(output)
    /\ UNCHANGED <<env, ctx, aux>>

\* Lines 599-612: Command::parse rejects the input.
HandleInputParseError ==
    /\ state = "HandleInput"
    /\ ParseCommand(input) = "Err"
    /\ GotoPromptUser(tool_uses, TRUE)
    /\ output' = Flushed(output)
    /\ UNCHANGED <<env, ctx, aux>>

\* Lines 617-620: Ask, approval of the pending tools.
HandleInputApprove ==
    /\ state = "HandleInput"
    /\ ParseCommand(input) = "Ask"
    /\ IsApproval(input, UnwrapOrDefault(tool_uses))
    /\ GotoExecuteTools(UnwrapOrDefault(tool_uses),
                        [via |-> "approval", accept_all |-> accept_all,
                         answer |-> input])
    /\ UNCHANGED output
    /\ UNCHANGED <<env, ctx, aux>>

\* HandleInputAsk when the status were left as the last tool round set it.
HandleInputAsk_keeps_status ==
    /\ state = "HandleInput"
    /\ ParseCommand(input) = "Ask"
    /\ ~IsApproval(input, UnwrapOrDefault(tool_uses))
    /\ spinner' = interactive
    /\ telemetry' = {}
    /\ LET h == AskHistory(history, input, UnwrapOrDefault(tool_uses))
       IN  /\ history' = h
           /\ SendOk(h) \/ SendErr(h)
    /\ output' = IF interactive THEN Flushed(CursorHide(output)) ELSE output
    /\ UNCHANGED <<env, accept_all, failed_request_ids, message_id, result,
                   lines, invoked, refused, tool_use_status>>

\* Lines 617-644: Ask, a new user message.
HandleInputAsk ==
    /\ state = "HandleInput"
    /\ ParseCommand(input) = "Ask"
    /\ ~IsApproval(input, UnwrapOrDefault(tool_uses))
    /\ tool_use_status' = Idle
    /\ spinner' = interactive
    /\ telemetry' = {}
    /\ LET h == AskHistory(history, input, UnwrapOrDefault(tool_uses))
       IN  /\ history' = h
           /\ SendOk(h) \/ SendErr(h)
    /\ output' = IF interactive THEN Flushed(CursorHide(output)) ELSE output
    /\ UNCHANGED <<env, accept_all, failed_request_ids, message_id, result,
                   lines, invoked, refused>>

\* What std::process::Command::new("bash").args(["-c", ..]).status() yields:
\* the exit status of the shell, or the error of a shell that did not start.
BashOutcomes == {"exit 0", "exit 1", "spawn error"}

\* BashFails when a shell that did not start was an error of the operation.
BashFails_on_spawn(outcome) == outcome = "spawn error"

\* Line 647: `.status().ok()`, the outcome is dropped.
BashFails(outcome) == FALSE

\* Lines 645-653: `!command`.
HandleInputExecute ==
    /\ state = "HandleInput"
    /\ ParseCommand(input) = "Execute"
    /\ \E outcome \in BashOutcomes :
           IF BashFails(outcome)
           THEN Raise(Error("Custom"))
           ELSE GotoPromptUser(NoTools, FALSE)
    /\ output' = Queued(Queued(output))
    /\ UNCHANGED <<env, ctx, aux>>

\* HandleInputClear when the conversation was left as it was.
HandleInputClear_keeps_history ==
    /\ state = "HandleInput"
    /\ ParseCommand(input) = "Clear"
    /\ GotoPromptUser(NoTools, TRUE)
    /\ output' = Flushed(output)
    /\ UNCHANGED <<env, ctx, aux>>

\* Lines 654-668: /clear.
HandleInputClear ==
    /\ state = "HandleInput"
    /\ ParseCommand(input) = "Clear"
    /\ history' = clear(history)
    /\ GotoPromptUser(NoTools, TRUE)
    /\ output' = Flushed(output)
    /\ UNCHANGED <<env, accept_all, failed_request_ids, spinner, message_id,
                   tool_use_status, telemetry, aux>>

\* HandleInputMeta when the command forgot the tool uses that were pending.
HandleInputMeta_drops_tools ==
    /\ state = "HandleInput"
    /\ ParseCommand(input) \in {"Help", "Profile", "Context"}
    /\ GotoPromptUser(NoTools, TRUE)
    /\ output' = Flushed(output)
    /\ UNCHANGED <<env, ctx, aux>>

\* Lines 669-675, 707-826, 827-1012: /help, /profile, /context.
HandleInputMeta ==
    /\ state = "HandleInput"
    /\ ParseCommand(input) \in {"Help", "Profile", "Context"}
    /\ GotoPromptUser(SomeTools(UnwrapOrDefault(tool_uses)), TRUE)
    /\ output' = Flushed(output)
    /\ UNCHANGED <<env, ctx, aux>>

\* LoweredIssue when the text given with /issue was left out.
LoweredIssue_drops_prompt(prompt) == IssueText

\* Lines 677-684: the input /issue stands for.
LoweredIssue(prompt) ==
    IF prompt.some THEN IssueText \o ": " \o prompt.text ELSE IssueText

\* Lines 676-686: /issue.
HandleInputIssue ==
    /\ state = "HandleInput"
    /\ ParseCommand(input) = "Issue"
    /\ GotoHandleInput(LoweredIssue(IssuePrompt(input)),
                       SomeTools(UnwrapOrDefault(tool_uses)))
    /\ UNCHANGED output
    /\ UNCHANGED <<env, ctx, aux>>

\* HandleInputAcceptAll when the command switched prompting off, not over.
HandleInputAcceptAll_sets ==
    /\ state = "HandleInput"
    /\ ParseCommand(input) = "AcceptAll"
    /\ accept_all' = TRUE
    /\ GotoPromptUser(SomeTools(UnwrapOrDefault(tool_uses)), TRUE)
    /\ output' = Flushed(output)
    /\ UNCHANGED <<env, failed_request_ids, spinner, history, message_id,
                   tool_use_status, telemetry, aux>>

\* Lines 687-705: /acceptall.
HandleInputAcceptAll ==
    /\ state = "HandleInput"
    /\ ParseCommand(input) = "AcceptAll"
    /\ accept_all' = ~accept_all
    /\ GotoPromptUser(SomeTools(UnwrapOrDefault(tool_uses)), TRUE)
    /\ output' = Flushed(output)
    /\ UNCHANGED <<env, failed_request_ids, spinner, history, message_id,
                   tool_use_status, telemetry, aux>>

\* Line 706: /quit.
HandleInputQuit ==
    /\ state = "HandleInput"
    /\ ParseCommand(input) = "Quit"
    /\ GotoExit
    /\ UNCHANGED output
    /\ UNCHANGED <<env, ctx, aux>>

\* ---------------------------------------------------------- ValidateTools
\* A tool use as handle_response collects it; req is what requires_acceptance
\* reports once validate_tools has made a Tool of it.
ToolUse(id) == [id |-> id, req |-> FALSE]

QueuedTool(id, req) == [id |-> id, req |-> req]

\* .map_or("No utterance id found".to_string(), |v| v.to_string())
UtteranceId(mid) == IF mid = 0 THEN NoUtteranceId ELSE mid

\* FlipToRetry when every failure took the id of the current message.
FlipToRetry_overwrite(status, mid) == RetryInProgress(UtteranceId(mid))

\* if let ToolUseStatus::Idle = self.tool_use_status { RetryInProgress(..) }
FlipToRetry(status, mid) ==
    IF status.retry THEN status ELSE RetryInProgress(UtteranceId(mid))

\* ValidationFailed when a single failure did not count.
ValidationFailed_many(results) == Len(results) > 1

\* Line 1360: `if !tool_results.is_empty()`.
ValidationFailed(results) == results # <<>>

\* skip_acceptance when one tool that needs no acceptance were enough.
skip_acceptance_any(aa, queued) ==
    aa \/ \E i \in 1..Len(queued) : ~queued[i].req

\* Line 1402.
skip_acceptance(aa, queued) ==
    aa \/ \A i \in 1..Len(queued) : ~queued[i].req

\* Lines 1323-1357: one tool use of the list, up to the await of its
\* validate: it is queued, or Tool::try_from or validate fails.
ValidateOne ==
    /\ state = "ValidateTools"
    /\ phase = "validate"
    /\ idx < Len(tool_uses.list)
    /\ LET id == tool_uses.list[idx + 1].id
       IN  /\ \/ \E req \in BOOLEAN :
                     /\ queued_tools' = Append(queued_tools, QueuedTool(id, req))
                     /\ tool_results' = tool_results
              \/ /\ queued_tools' = queued_tools
                 /\ tool_results' = Append(tool_results, ToolResult(id, "Error"))
           /\ telemetry' = telemetry \cup {id}
    /\ idx' = idx + 1
    /\ UNCHANGED output
    /\ UNCHANGED <<env, accept_all, failed_request_ids, spinner, history,
                   message_id, tool_use_status, ctl, phase, recv_tools,
                   tool_name_being_recvd, buf_empty, stream, aux>>

\* Lines 1360-1385: some tool use failed; the results go to the conversation.
ValidateFailed ==
    /\ state = "ValidateTools"
    /\ phase = "validate"
    /\ idx = Len(tool_uses.list)
    /\ ValidationFailed(tool_results)
    /\ history' = add_tool_results(history, tool_results)
    /\ phase' = "telemetry"
    /\ output' = Queued(AttributeReset(output))
    /\ UNCHANGED <<env, accept_all, failed_request_ids, spinner, message_id,
                   tool_use_status, telemetry, ctl, idx, queued_tools,
                   tool_results, recv_tools, tool_name_being_recvd, buf_empty,
                   stream, aux>>

\* Lines 1402-1408: every tool validated and none needs the user.
ValidateToExecute ==
    /\ state = "ValidateTools"
    /\ phase = "validate"
    /\ idx = Len(tool_uses.list)
    /\ ~ValidationFailed(tool_results)
    /\ skip_acceptance(accept_all, queued_tools)
    /\ GotoExecuteTools(queued_tools,
                        [via |-> "validate", accept_all |-> accept_all,
                         answer |-> ""])
    /\ output' = Queued(output)
    /\ UNCHANGED <<env, ctx, aux>>

\* Lines 1409-1412: the user is asked.
ValidateToPrompt ==
    /\ state = "ValidateTools"
    /\ phase = "validate"
    /\ idx = Len(tool_uses.list)
    /\ ~ValidationFailed(tool_results)
    /\ ~skip_acceptance(accept_all, queued_tools)
    /\ interactive
    /\ GotoPromptUser(SomeTools(queued_tools), FALSE)
    /\ UNCHANGED output
    /\ UNCHANGED <<env, ctx, aux>>

\* Line 1413: Err(ChatError::NonInteractiveToolApproval).
ValidateNonInteractive ==
    /\ state = "ValidateTools"
    /\ phase = "validate"
    /\ idx = Len(tool_uses.list)
    /\ ~ValidationFailed(tool_results)
    /\ ~skip_acceptance(accept_all, queued_tools)
    /\ ~interactive
    /\ Raise(Error("NonInteractiveToolApproval"))
    /\ refused' = TRUE
    /\ UNCHANGED output
    /\ UNCHANGED <<env, ctx, result, sends, rounds, sent, lines, invoked>>

\* ----------------------------------------------------------- ExecuteTools
\* InvokeResults when the newest result went to the front.
InvokeResults_front(results, id, ok) ==
    <<ToolResult(id, IF ok THEN "Success" ELSE "Error")>> \o results

\* InvokeResults when a failed invocation left no result.
InvokeResults_success_only(results, id, ok) ==
    IF ok THEN Append(results, ToolResult(id, "Success")) ELSE results

\* Lines 1048-1097: the result list after invoking tool id with outcome ok.
InvokeResults(results, id, ok) ==
    Append(results, ToolResult(id, IF ok THEN "Success" ELSE "Error"))

\* Lines 1025-1077: what the invocation of one tool writes: the header is
\* queued; after the invocation, with a spinner in interactive mode, the line
\* is cleared and cursor::Show queued; the newline is flushed, then the line
\* with the elapsed time, which ends with the attribute reset on a failure.
InvokeOutput(o, sp, ok) ==
    LET shown == IF interactive /\ sp THEN CursorShow(Queued(o)) ELSE Queued(o)
    IN  Flushed(IF ok THEN shown ELSE AttributeReset(shown))

\* Lines 1020-1100: one tool of the list is invoked; after the last one the
\* results are attached (no await lies between).
InvokeTool ==
    /\ state = "ExecuteTools"
    /\ phase = "invoke"
    /\ idx < Len(tool_uses.list)
    /\ LET id == tool_uses.list[idx + 1].id
       IN  \E ok \in BOOLEAN :
               LET results == InvokeResults(tool_results, id, ok)
               IN  /\ invoked' = Append(invoked, id)
                   /\ tool_results' = results
                   /\ output' = InvokeOutput(output, spinner, ok)
                   /\ tool_use_status' =
                          IF ok THEN tool_use_status
                          ELSE FlipToRetry(tool_use_status, message_id)
                   /\ IF idx + 1 = Len(tool_uses.list)
                      THEN /\ history' = add_tool_results(history, results)
                           /\ phase' = "telemetry"
                      ELSE UNCHANGED <<history, phase>>
    /\ idx' = idx + 1
    /\ UNCHANGED <<env, accept_all, failed_request_ids, spinner, message_id,
                   telemetry, ctl, queued_tools, recv_tools,
                   tool_name_being_recvd, buf_empty, stream, result, sends,
                   rounds, sent, lines, refused>>

\* ---------------------------------- the awaits that end the raced operations
\* Raced when handle_input were run under select! as well.
Raced_with_input ==
    {"HandleInput", "ValidateTools", "ExecuteTools", "HandleResponseStream"}

\* Lines 420-437: the states whose operation try_chat runs under
\* tokio::select! against ctrl_c_stream.recv().
Raced == {"ValidateTools", "ExecuteTools", "HandleResponseStream"}

\* DispatchTelemetry when the events stayed in the map after their dispatch.
DispatchTelemetry_keeps_events ==
    /\ state \in Raced
    /\ phase = "telemetry"
    /\ tool_use_status' =
           IF state = "ValidateTools"
           THEN FlipToRetry(tool_use_status, message_id)
           ELSE tool_use_status
    /\ phase' = "send"
    /\ UNCHANGED output
    /\ UNCHANGED <<env, accept_all, failed_request_ids, spinner, history,
                   message_id, ctl, idx, queued_tools, tool_results, recv_tools,
                   tool_name_being_recvd, buf_empty, stream, aux, telemetry>>

\* send_tool_use_telemetry (lines 1460-1471) drains the map; validate_tools
\* then flips the status (lines 1387-1393).
DispatchTelemetry ==
    /\ state \in Raced
    /\ phase = "telemetry"
    /\ telemetry' = {}
    /\ tool_use_status' =
           IF state = "ValidateTools"
           THEN FlipToRetry(tool_use_status, message_id)
           ELSE tool_use_status
    /\ phase' = "send"
    /\ UNCHANGED output
    /\ UNCHANGED <<env, accept_all, failed_request_ids, spinner, history,
                   message_id, ctl, idx, queued_tools, tool_results, recv_tools,
                   tool_name_being_recvd, buf_empty, stream, aux>>

\* Lines 1102-1106, 1184-1188, 1217-1221, 1395-1399: the conversation is sent.
SendConversation ==
    /\ state \in Raced
    /\ phase = "send"
    /\ SendOk(history) \/ SendErr(history)
    /\ UNCHANGED output
    /\ UNCHANGED <<env, ctx, result, lines, invoked, refused>>

\* InterruptError when no arm carried the tool list.
InterruptError_none(st, tu) == Interrupted(NoTools)

\* Lines 422-436: the error of the select! arm of state st, which carries
\* tool_uses_clone in ExecuteTools and None in the other two states.
InterruptError(st, tu) ==
    Interrupted(IF st = "ExecuteTools" THEN tu ELSE NoTools)

\* Lines 1461-1470: what a cancelled send_tool_use_telemetry leaves of the
\* map.  Dropped before its first poll it leaves the map alone; dropped at an
\* await of the loop it drops the Drain, which removes the rest of the map.
DrainDropped(ph, map) == IF ph = "telemetry" THEN {map, {}} ELSE {map}

\* Lines 423-437: the interrupt source wins the race.
Interrupt ==
    /\ state \in Raced
    /\ Raise(InterruptError(state, tool_uses))
    /\ telemetry' \in DrainDropped(phase, telemetry)
    /\ UNCHANGED output
    /\ UNCHANGED <<env, accept_all, spinner, history, message_id,
                   tool_use_status, failed_request_ids, aux>>

\* --------------------------------------------------- HandleResponseStream
\* SpinnerAfterEvent when text to print did not take the spinner away.
SpinnerAfterEvent_keeps(sp, tn, be) == IF tn /\ interactive THEN TRUE ELSE sp

\* Lines 1235-1276: the spinner after an event has been taken in, with
\* tool_name_being_recvd = tn and buf.is_empty() = be.
SpinnerAfterEvent(sp, tn, be) ==
    LET cleared == IF ~tn /\ ~be /\ interactive /\ sp THEN FALSE ELSE sp
    IN  IF tn /\ interactive THEN TRUE ELSE cleared

\* Lines 1235-1276: the output after an event has been taken in: the spinner,
\* when it is cleared, gives way to cursor::Show; the renderer flushes when
\* it has parsed something; a tool name being received is printed with
\* cursor::Hide.
OutputAfterEvent(o, sp, tn, be, parsed) ==
    LET shown == IF ~tn /\ ~be /\ interactive /\ sp THEN CursorShow(o) ELSE o
        rendered == IF parsed THEN Flushed(shown) ELSE shown
    IN  IF tn /\ interactive THEN CursorHide(rendered) ELSE rendered

NextEvent(ev) ==
    /\ state = "HandleResponseStream"
    /\ phase = "recv"
    /\ stream # <<>>
    /\ Head(stream).ev = ev

\* Lines 1129-1131: ResponseEvent::AssistantText, rendered.
RecvAssistantText ==
    /\ NextEvent("AssistantText")
    /\ stream' = Tail(stream)
    /\ buf_empty' = FALSE
    /\ spinner' = SpinnerAfterEvent(spinner, tool_name_being_recvd, FALSE)
    /\ output' = OutputAfterEvent(output, spinner, tool_name_being_recvd,
                                  FALSE, TRUE)
    /\ UNCHANGED <<env, accept_all, failed_request_ids, history, message_id,
                   tool_use_status, telemetry, ctl, phase, idx, queued_tools,
                   tool_results, recv_tools, tool_name_being_recvd, aux>>

\* Lines 1255-1256: interpret_markdown fails on the text, ChatError::Custom.
RecvRenderError ==
    /\ NextEvent("AssistantText")
    /\ spinner' = SpinnerAfterEvent(spinner, tool_name_being_recvd, FALSE)
    /\ output' = OutputAfterEvent(output, spinner, tool_name_being_recvd,
                                  FALSE, FALSE)
    /\ Raise(Error("Custom"))
    /\ UNCHANGED <<env, accept_all, failed_request_ids, history, message_id,
                   tool_use_status, telemetry, aux>>

\* Lines 1123-1128: ResponseEvent::ToolUseStart.
RecvToolUseStart ==
    /\ NextEvent("ToolUseStart")
    /\ stream' = Tail(stream)
    /\ buf_empty' = FALSE
    /\ tool_name_being_recvd' = TRUE
    /\ spinner' = SpinnerAfterEvent(spinner, TRUE, FALSE)
    /\ output' = OutputAfterEvent(output, spinner, TRUE, FALSE, TRUE)
    /\ UNCHANGED <<env, accept_all, failed_request_ids, history, message_id,
                   tool_use_status, telemetry, ctl, phase, idx, queued_tools,
                   tool_results, recv_tools, aux>>

\* Lines 1132-1144: ResponseEvent::ToolUse.
RecvToolUse ==
    /\ NextEvent("ToolUse")
    /\ stream' = Tail(stream)
    /\ recv_tools' = Append(recv_tools, ToolUse(Head(stream).id))
    /\ tool_name_being_recvd' = FALSE
    /\ spinner' = SpinnerAfterEvent(IF interactive /\ spinner THEN FALSE ELSE spinner,
                                    FALSE, buf_empty)
    /\ output' = OutputAfterEvent(IF interactive /\ spinner
                                  THEN CursorShow(output) ELSE output,
                                  FALSE, FALSE, buf_empty, FALSE)
    /\ UNCHANGED <<env, accept_all, failed_request_ids, history, message_id,
                   tool_use_status, telemetry, ctl, phase, idx, queued_tools,
                   tool_results, buf_empty, aux>>

\* Lines 1287-1289: at the end of the stream an interactive session queues
\* the colour and attribute reset and flushes a newline (the responses have
\* no citations to list after it).
EndStreamOutput(o) == IF interactive THEN Flushed(AttributeReset(o)) ELSE o

\* RecvEndStream when the tool uses received were dropped at the end.
RecvEndStream_drops_tools ==
    /\ NextEvent("EndStream")
    /\ history' = push_assistant_message(history, "response", Head(stream).ids)
    /\ message_id' = Head(stream).mid
    /\ spinner' = SpinnerAfterEvent(spinner, tool_name_being_recvd, FALSE)
    /\ output' = EndStreamOutput(OutputAfterEvent(output, spinner,
                                                  tool_name_being_recvd,
                                                  FALSE, TRUE))
    /\ GotoPromptUser(NoTools, FALSE)
    /\ UNCHANGED <<env, accept_all, failed_request_ids, tool_use_status,
                   telemetry, aux>>

\* RecvEndStream when the tool uses were validated even if there were none.
RecvEndStream_validates_empty ==
    /\ NextEvent("EndStream")
    /\ history' = push_assistant_message(history, "response", Head(stream).ids)
    /\ message_id' = Head(stream).mid
    /\ spinner' = SpinnerAfterEvent(spinner, tool_name_being_recvd, FALSE)
    /\ output' = EndStreamOutput(OutputAfterEvent(output, spinner,
                                                  tool_name_being_recvd,
                                                  FALSE, TRUE))
    /\ GotoValidateTools(recv_tools)
    /\ UNCHANGED <<env, accept_all, failed_request_ids, tool_use_status,
                   telemetry, aux>>

\* Lines 1145-1148 and 1278-1316: ResponseEvent::EndStream ends the operation.
RecvEndStream ==
    /\ NextEvent("EndStream")
    /\ history' = push_assistant_message(history, "response", Head(stream).ids)
    /\ message_id' = Head(stream).mid
    /\ spinner' = SpinnerAfterEvent(spinner, tool_name_being_recvd, FALSE)
    /\ output' = EndStreamOutput(OutputAfterEvent(output, spinner,
                                                  tool_name_being_recvd,
                                                  FALSE, TRUE))
    /\ IF recv_tools # <<>>
       THEN GotoValidateTools(recv_tools)
       ELSE GotoPromptUser(NoTools, FALSE)
    /\ UNCHANGED <<env, accept_all, failed_request_ids, tool_use_status,
                   telemetry, aux>>

\* The locals of handle_response are not read after a receive error.
\* Lines 1152-1154: the request id of the receive error, when it has one, is
\* kept, whatever the error.  The variant keeps it for the errors that are
\* returned only.
RecordFailedRequest_fatal_only(ids, recv_error) ==
    IF recv_error.request_id.some /\ recv_error.ev = "Other"
    THEN Append(ids, recv_error.request_id.id)
    ELSE ids

RecordFailedRequest(ids, recv_error) ==
    IF recv_error.request_id.some
    THEN Append(ids, recv_error.request_id.id)
    ELSE ids

DropStream ==
    /\ stream' = <<>>
    /\ recv_tools' = <<>>
    /\ tool_name_being_recvd' = FALSE
    /\ buf_empty' = TRUE

\* RecvStreamTimeout when the timeout was returned like any other error.
RecvStreamTimeout_fatal ==
    /\ NextEvent("StreamTimeout")
    /\ failed_request_ids' = RecordFailedRequest(failed_request_ids, Head(stream))
    /\ Raise(Error("ResponseStream"))
    /\ UNCHANGED output
    /\ UNCHANGED <<env, accept_all, spinner, history, message_id,
                   tool_use_status, telemetry, aux>>

\* Lines 1157-1182: RecvErrorKind::StreamTimeout, up to the telemetry await.
RecvStreamTimeout ==
    /\ NextEvent("StreamTimeout")
    /\ failed_request_ids' = RecordFailedRequest(failed_request_ids, Head(stream))
    /\ spinner' = IF interactive THEN TRUE ELSE spinner
    /\ history' = append_new_user_message(
                      push_assistant_message(history, TimeoutAssistantText, <<>>),
                      TimeoutUserText)
    /\ message_id' = 0
    /\ phase' = "telemetry"
    /\ DropStream
    /\ output' = IF interactive THEN Flushed(CursorHide(output)) ELSE output
    /\ UNCHANGED <<env, accept_all, tool_use_status, telemetry, ctl, idx,
                   queued_tools, tool_results, aux>>

\* Lines 1190-1215: RecvErrorKind::UnexpectedToolUseEos, up to the telemetry
\* await.
RecvUnexpectedToolUseEos ==
    /\ NextEvent("UnexpectedToolUseEos")
    /\ failed_request_ids' = RecordFailedRequest(failed_request_ids, Head(stream))
    /\ spinner' = IF interactive THEN TRUE ELSE spinner
    /\ history' = add_tool_results(
                      push_assistant_message(history, "partial", Head(stream).ids),
                      <<ToolResult(Head(stream).id, "Error")>>)
    /\ message_id' = Head(stream).mid
    /\ phase' = "telemetry"
    /\ DropStream
    /\ output' = IF interactive THEN Flushed(CursorHide(output)) ELSE output
    /\ UNCHANGED <<env, accept_all, tool_use_status, telemetry, ctl, idx,
                   queued_tools, tool_results, aux>>

\* Line 1223: any other receive error is returned.
RecvOtherError ==
    /\ NextEvent("Other")
    /\ failed_request_ids' = RecordFailedRequest(failed_request_ids, Head(stream))
    /\ Raise(Error("ResponseStream"))
    /\ UNCHANGED output
    /\ UNCHANGED <<env, accept_all, spinner, history, message_id,
                   tool_use_status, telemetry, aux>>

\* ---------------------------------------------------------- specification
Next ==
    \/ TryChatStart
    \/ ExitLoop
    \/ ErrorHandler
    \/ PromptNonInteractive
    \/ PromptReadLine
    \/ PromptEof
    \/ PromptReadlineError
    \/ HandleInputParseError
    \/ HandleInputApprove
    \/ HandleInputAsk
    \/ HandleInputExecute
    \/ HandleInputClear
    \/ HandleInputMeta
    \/ HandleInputIssue
    \/ HandleInputAcceptAll
    \/ HandleInputQuit
    \/ ValidateOne
    \/ ValidateFailed
    \/ ValidateToExecute
    \/ ValidateToPrompt
    \/ ValidateNonInteractive
    \/ InvokeTool
    \/ DispatchTelemetry
    \/ SendConversation
    \/ Interrupt
    \/ RecvAssistantText
    \/ RecvRenderError
    \/ RecvToolUseStart
    \/ RecvToolUse
    \/ RecvEndStream
    \/ RecvStreamTimeout
    \/ RecvUnexpectedToolUseEos
    \/ RecvOtherError

Spec == Init /\ [][Next]_vars

\* ------------------------------------------- the interactive session, fair
\* `q chat` with a terminal, with no input and no --accept-all on its command
\* line: every input is read at the prompt, where /acceptall sets accept_all.
InitInteractive ==
    Init /\ interactive /\ ~initial_input.some /\ ~accept_all

\* The steps of an interactive session in which ctrl_c_stream.recv() never
\* completes: no SIGINT is delivered.
NextUninterrupted ==
    \/ TryChatStart
    \/ ExitLoop
    \/ ErrorHandler
    \/ PromptReadLine
    \/ PromptEof
    \/ PromptReadlineError
    \/ HandleInputParseError
    \/ HandleInputApprove
    \/ HandleInputAsk
    \/ HandleInputExecute
    \/ HandleInputClear
    \/ HandleInputMeta
    \/ HandleInputIssue
    \/ HandleInputAcceptAll
    \/ HandleInputQuit
    \/ ValidateOne
    \/ ValidateFailed
    \/ ValidateToExecute
    \/ ValidateToPrompt
    \/ InvokeTool
    \/ DispatchTelemetry
    \/ SendConversation
    \/ RecvAssistantText
    \/ RecvRenderError
    \/ RecvToolUseStart
    \/ RecvToolUse
    \/ RecvEndStream
    \/ RecvStreamTimeout
    \/ RecvUnexpectedToolUseEos
    \/ RecvOtherError

\* Lines 404-443: the loop of try_chat runs the operation of the state it
\* is in whenever there is one; every await of an operation completes.
SpecUninterrupted ==
    InitInteractive /\ [][NextUninterrupted]_vars /\ WF_vars(NextUninterrupted)

\* ---------------------------------------- the error handler's print_error
\* A text is a sequence of characters.  A character is written as itself,
\* or by its name where it cannot be: "ESC" is \x1B, "U+009B" the control
\* sequence introducer in one character, "U+00E9" a letter outside ASCII,
\* "U+0060" the grave accent.
Letters ==
    {"A", "B", "C", "D", "E", "F", "G", "H", "I", "J", "K", "L", "M",
     "N", "O", "P", "Q", "R", "S", "T", "U", "V", "W", "X", "Y", "Z",
     "a", "b", "c", "d", "e", "f", "g", "h", "i", "j", "k", "l", "m",
     "n", "o", "p", "q", "r", "s", "t", "u", "v", "w", "x", "y", "z"}

\* [0-?]
ParameterChars ==
    {"0", "1", "2", "3", "4", "5", "6", "7", "8", "9",
     ":", ";", "<", "=", ">", "?"}

\* [ -\/]
IntermediateChars ==
    {" ", "!", "\"", "#", "$", "%", "&", "'", "(", ")", "*", "+", ",", "-",
     ".", "/"}

\* [@-~]
FinalChars ==
    Letters \cup {"@", "[", "\\", "]", "^", "_", "U+0060", "{", "|", "}", "~"}

\* [^\x00-\x7F], as far as the texts here go.
NonAsciiChars == {"U+009B", "U+00E9"}

\* The first position from i on whose character is outside the class.
RECURSIVE SkipChars(_, _, _)
SkipChars(text, i, class) ==
    IF i <= Len(text) /\ text[i] \in class
    THEN SkipChars(text, i + 1, class)
    ELSE i

\* (\x9B|\x1B\[)[0-?]*[ -\/]*[@-~] tried at position i: the position after
\* the match, 0 when there is none.  The three classes are disjoint, so the
\* greedy match is the only one.
EscapeSequenceEnd(text, i) ==
    LET start == IF text[i] = "U+009B" THEN i + 1
                 ELSE IF text[i] = "ESC" /\ i < Len(text) /\ text[i + 1] = "["
                      THEN i + 2
                      ELSE 0
        j == SkipChars(text, SkipChars(text, start, ParameterChars),
                       IntermediateChars)
    IN  IF start > 0 /\ j <= Len(text) /\ text[j] \in FinalChars
        THEN j + 1
        ELSE 0

\* The whole expression of line 402 tried at position i: the first
\* alternative, then [^\x00-\x7F]+.
MatchEnd(text, i) ==
    IF EscapeSequenceEnd(text, i) > 0 THEN EscapeSequenceEnd(text, i)
    ELSE IF text[i] \in NonAsciiChars THEN SkipChars(text, i, NonAsciiChars)
    ELSE 0

\* replace_all(_, ""): one pass from the left, the matches do not overlap.
RECURSIVE ReplaceAllFrom(_, _)
ReplaceAllFrom(text, i) ==
    IF i > Len(text) THEN <<>>
    ELSE IF MatchEnd(text, i) > 0 THEN ReplaceAllFrom(text, MatchEnd(text, i))
    ELSE <<text[i]>> \o ReplaceAllFrom(text, i + 1)

re_replace_all(text) == ReplaceAllFrom(text, 1)

None == [some |-> FALSE, value |-> <<>>]

Some(v) == [some |-> TRUE, value |-> v]

\* Lines 444-473: the text print_error prints and gives to
\* append_transcript.  format!("{}: {:?}\n", prepend_msg, report) with the
\* report's Debug output as its text.
print_error(prepend_msg, report) ==
    IF report.some
    THEN re_replace_all(prepend_msg \o <<":", " ">> \o report.value \o <<"\n">>)
    ELSE prepend_msg

TroubleMsg ==
    <<"A", "m", "a", "z", "o", "n", " ", "Q", " ", "i", "s", " ", "h",
      "a", "v", "i", "n", "g", " ", "t", "r", "o", "u", "b", "l", "e",
      " ", "r", "e", "s", "p", "o", "n", "d", "i", "n", "g", " ", "r",
      "i", "g", "h", "t", " ", "n", "o", "w">>

\* Lines 505-522: the arms of the handler that print a message.
HandlerText(e) ==
    IF e.kind = "QuotaBreach"
    THEN print_error(e.msg, None)
    ELSE print_error(TroubleMsg, Some(e.msg))

MaxMsgLen == 4

ErrorChars == {"ESC", "[", "3", "m", "U+00E9", "U+009B"}

ErrorMessages == UNION {[1..n -> ErrorChars] : n \in 0..MaxMsgLen}

\* The errors the handler can be given: an interrupt, a QuotaBreach with the
\* server's message, another client error, any other error.
RaisedErrors ==
    {[kind |-> k, msg |-> m] :
        k \in {"QuotaBreach", "Client", "Other"}, m \in ErrorMessages}
    \cup {[kind |-> "Interrupted", msg |-> <<>>]}

session == <<interactive, initial_input, conversation_id, ctx, ctl, loc, aux,
             output>>

\* A session that has not started: the operations checked on their own run
\* beside it.
Parked ==
    /\ ChatContextNew
    /\ interactive
    /\ ~accept_all
    /\ ~initial_input.some

InitPrintError ==
    /\ Parked
    /\ NoTruncate
    /\ NoCreateStream
    /\ NoRender
    /\ raised \in RaisedErrors
    /\ transcript = <<>>

\* Lines 486-503: an interrupt prints two newlines, the transcript is not
\* given anything.
HandlerInterrupted ==
    /\ raised.kind = "Interrupted"
    /\ raised' = NoReport
    /\ UNCHANGED <<transcript, session, truncating, mocking, rendering>>

\* Lines 504-522 with print_error returning Ok.
HandlerPrintsError ==
    /\ raised.kind \in {"QuotaBreach", "Client", "Other"}
    /\ transcript' = Append(transcript, HandlerText(raised))
    /\ raised' = NoReport
    /\ UNCHANGED <<session, truncating, mocking, rendering>>

\* Lines 448-452: print_error fails on its first write, before the text is
\* made.
HandlerPrintFails ==
    /\ raised.kind \in {"QuotaBreach", "Client", "Other"}
    /\ raised' = NoReport
    /\ UNCHANGED <<transcript, session, truncating, mocking, rendering>>

NextPrintError ==
    \/ HandlerInterrupted
    \/ HandlerPrintsError
    \/ HandlerPrintFails

SpecPrintError == InitPrintError /\ [][NextPrintError]_vars

\* --------------------------------------------------- the mock's create_stream
\* The JSON values of a script: a string, or an object with one member whose
\* value is a string.  Their texts are sequences of characters as above.
JsonString(chars) == [type |-> "string", key |-> <<>>, chars |-> chars]

JsonObject(key, chars) == [type |-> "object", key |-> key, chars |-> chars]

\* serde_json writes a string between quotes, with a backslash before a
\* quote or a backslash and every character outside ASCII as it is.
RECURSIVE Escaped(_)
Escaped(chars) ==
    IF chars = <<>> THEN <<>>
    ELSE (IF Head(chars) \in {"\"", "\\"}
          THEN <<"\\", Head(chars)>>
          ELSE <<Head(chars)>>) \o Escaped(Tail(chars))

Quoted(chars) == <<"\"">> \o Escaped(chars) \o <<"\"">>

\* Line 1557: value.get("args").unwrap().to_string()
to_string(value) ==
    IF value.type = "string" THEN Quoted(value.chars)
    ELSE <<"{">> \o Quoted(value.key) \o <<":">> \o Quoted(value.chars) \o <<"}">>

\* The bytes of a character in UTF-8.
len_utf8(c) == IF c \in NonAsciiChars THEN 2 ELSE 1

\* str::len, in bytes.
RECURSIVE len(_)
len(s) == IF s = <<>> THEN 0 ELSE len_utf8(Head(s)) + len(Tail(s))

\* str::split_at(mid): the two parts of s when byte mid is the start of a
\* character or the end of s, a panic when it is inside a character.
split_at(s, mid) ==
    IF \E k \in 0..Len(s) : len(SubSeq(s, 1, k)) = mid
    THEN LET k == CHOOSE k \in 0..Len(s) : len(SubSeq(s, 1, k)) = mid
         IN  [ok |-> TRUE, left |-> SubSeq(s, 1, k),
              right |-> SubSeq(s, k + 1, Len(s))]
    ELSE [ok |-> FALSE, left |-> <<>>, right |-> <<>>]

ToolUseEvent(tool_use_id, name, inp, stop) ==
    [type |-> "ToolUseEvent", tool_use_id |-> tool_use_id, name |-> name,
     input |-> inp, stop |-> stop, content |-> ""]

AssistantResponseEvent(content) ==
    [type |-> "AssistantResponseEvent", tool_use_id |-> "", name |-> "",
     input |-> None, stop |-> None, content |-> content]

\* Lines 1554-1585.
split_tool_use_event(value) ==
    LET args_str == to_string(value.args)
        split_point == len(args_str) \div 2
        halves == split_at(args_str, split_point)
    IN  [ok |-> halves.ok,
         events |->
             <<ToolUseEvent(value.tool_use_id, value.name, None, None),
               ToolUseEvent(value.tool_use_id, value.name,
                            Some(halves.left), None),
               ToolUseEvent(value.tool_use_id, value.name,
                            Some(halves.right), None),
               ToolUseEvent(value.tool_use_id, value.name, None, Some(TRUE))>>]

\* Lines 1592-1604: the events of one response of the script, and whether
\* none of them panicked.
RECURSIVE ResponseStream(_)
ResponseStream(response) ==
    IF response = <<>> THEN [ok |-> TRUE, events |-> <<>>]
    ELSE LET event == Head(response)
             first == IF event.type = "String"
                      THEN [ok |-> TRUE,
                            events |-> <<AssistantResponseEvent(event.text)>>]
                      ELSE split_tool_use_event(event)
             rest == ResponseStream(Tail(response))
         IN  [ok |-> first.ok /\ rest.ok, events |-> first.events \o rest.events]

\* Lines 1588-1608.
create_stream(responses) ==
    [ok |-> \A i \in 1..Len(responses) : ResponseStream(responses[i]).ok,
     streams |-> [i \in 1..Len(responses) |-> ResponseStream(responses[i]).events]]

MaxArgLen == 1

MaxEvents == 2

MaxResponses == 2

ArgChars == {"a", "\"", "U+00E9"}

ArgTexts == UNION {[1..n -> ArgChars] : n \in 0..MaxArgLen}

\* The elements of a response of the script, in the documented format.
ScriptEvents ==
    {[type |-> "String", text |-> "Sure", tool_use_id |-> "", name |-> "",
      args |-> JsonString(<<>>)]}
    \cup {[type |-> "Object", text |-> "", tool_use_id |-> "1",
           name |-> "fs_write", args |-> a] :
            a \in {JsonString(t) : t \in ArgTexts}
                  \cup {JsonObject(<<"p">>, t) : t \in ArgTexts}}

ScriptResponses == UNION {[1..n -> ScriptEvents] : n \in 0..MaxEvents}

Scripts == UNION {[1..n -> ScriptResponses] : n \in 1..MaxResponses}

InitCreateStream ==
    /\ Parked
    /\ NoTruncate
    /\ NoPrintError
    /\ NoRender
    /\ model_responses \in Scripts
    /\ mock = NotCreated

\* create_stream returns the mock client.
CreateStreamReturns ==
    /\ mock.status = "none"
    /\ create_stream(model_responses).ok
    /\ mock' = [status |-> "mock",
                streams |-> create_stream(model_responses).streams]
    /\ UNCHANGED <<model_responses, session, truncating, printing, rendering>>

\* create_stream panics in split_at.
CreateStreamPanics ==
    /\ mock.status = "none"
    /\ ~create_stream(model_responses).ok
    /\ mock' = [status |-> "panic", streams |-> <<>>]
    /\ UNCHANGED <<model_responses, session, truncating, printing, rendering>>

NextCreateStream ==
    \/ CreateStreamReturns
    \/ CreateStreamPanics

SpecCreateStream == InitCreateStream /\ [][NextCreateStream]_vars

\* ------------------------------------------- handle_response, the rendering
\* What parser.recv() yields, with the text of an AssistantText.
ResponseEvent(ev) == [ev |-> ev, text |-> <<>>]

AssistantText(text) == [ev |-> "AssistantText", text |-> text]

\* BufAfterEvent when only the text of the model is put into buf.
BufAfterEvent_text_only(b, event) ==
    IF event.ev = "AssistantText" THEN b \o event.text
    ELSE IF event.ev = "EndStream" THEN Append(b, "\n")
    ELSE b

\* Lines 1122-1131 and 1231-1233: buf after the arm of the event and after
\* `if ended { buf.push('\n') }`.
BufAfterEvent(b, event) ==
    IF event.ev = "AssistantText" THEN b \o event.text
    ELSE IF event.ev = "ToolUseStart" THEN Append(b, "\n")
    ELSE IF event.ev = "EndStream" THEN Append(b, "\n")
    ELSE b

\* interpret_markdown returning Ok(parsed): the bytes of the input it can
\* have consumed, parsed.offset_from(&input).
Consumed(inp) == 1..Len(inp)

MaxItems == 3

Fragments == {<<"a">>, <<"b", "c">>}

\* A response: text fragments and tool uses, then the end of the stream or
\* a receive error.
ResponseItems ==
    {<<AssistantText(f)>> : f \in Fragments}
    \cup {<<ResponseEvent("ToolUseStart"), ResponseEvent("ToolUse")>>}

RECURSIVE Flattened(_)
Flattened(items) ==
    IF items = <<>> THEN <<>> ELSE Head(items) \o Flattened(Tail(items))

RenderedResponses ==
    {Flattened(items) \o <<ResponseEvent(e)>> :
        items \in UNION {[1..n -> ResponseItems] : n \in 0..MaxItems},
        e \in {"EndStream", "RecvError"}}

\* Lines 1110-1117.
InitRender ==
    /\ Parked
    /\ NoTruncate
    /\ NoPrintError
    /\ NoCreateStream
    /\ events \in RenderedResponses
    /\ arrived = <<>>
    /\ buf = <<>>
    /\ offset = 0
    /\ ended = FALSE
    /\ at = "recv"

\* Lines 1119-1149 and 1231-1233: recv yields an event.
HandleResponseRecv ==
    /\ at = "recv"
    /\ Head(events).ev # "RecvError"
    /\ buf' = BufAfterEvent(buf, Head(events))
    /\ ended' = (Head(events).ev = "EndStream")
    /\ arrived' = Append(arrived, Head(events))
    /\ events' = Tail(events)
    /\ at' = "render"
    /\ UNCHANGED <<offset, session, truncating, printing, mocking>>

\* Lines 1151-1224: recv yields an error, handle_response is left.
HandleResponseRecvError ==
    /\ at = "recv"
    /\ Head(events).ev = "RecvError"
    /\ arrived' = Append(arrived, Head(events))
    /\ events' = Tail(events)
    /\ at' = "returned"
    /\ UNCHANGED <<buf, offset, ended, session, truncating, printing, mocking>>

\* Lines 1246-1254: interpret_markdown(Partial::new(&buf[offset..]), ..)
\* returns Ok(parsed), and the loop goes on.
InterpretParsed ==
    /\ at = "render"
    /\ \E n \in Consumed(SubSeq(buf, offset + 1, Len(buf))) :
           offset' = offset + n
    /\ UNCHANGED <<events, arrived, buf, ended, at, session, truncating, printing, mocking>>

\* Lines 1255-1258 and 1278, 1304: the data was incomplete, the inner loop
\* is left; the outer one is left when the stream has ended.
InterpretIncomplete ==
    /\ at = "render"
    /\ at' = IF ended THEN "returned" ELSE "recv"
    /\ UNCHANGED <<events, arrived, buf, offset, ended, session, truncating, printing,
                   mocking>>

\* Lines 1255-1256: any other error of the renderer is returned.
InterpretError ==
    /\ at = "render"
    /\ at' = "returned"
    /\ UNCHANGED <<events, arrived, buf, offset, ended, session, truncating, printing,
                   mocking>>

NextRender ==
    \/ HandleResponseRecv
    \/ HandleResponseRecvError
    \/ InterpretParsed
    \/ InterpretIncomplete
    \/ InterpretError

SpecRender == InitRender /\ [][NextRender]_vars

\* ------------------------------------------------------------ truncate_safe
\* s.char_indices(): the byte index at which the i-th character of s starts.
char_index(s, i) == len(SubSeq(s, 1, i - 1))

\* The test of line 1487 when reaching max_bytes already ended the loop.
PastLimit_or_at(byte_count, byte_idx, max) ==
    byte_count + (byte_idx - byte_count) >= max

\* Line 1487: `if byte_count + (byte_idx - byte_count) > max_bytes`.
PastLimit(byte_count, byte_idx, max) ==
    byte_count + (byte_idx - byte_count) > max

\* Lines 1483-1491: byte_count when the loop, which has come to the i-th
\* character of s, is over.
RECURSIVE byte_count_from(_, _, _, _)
byte_count_from(s, max, i, byte_count) ==
    IF i > Len(s) THEN byte_count
    ELSE IF PastLimit(byte_count, char_index(s, i), max) THEN byte_count
    ELSE byte_count_from(s, max, i + 1, char_index(s, i))

\* Line 1493: &s[..end], a panic when byte `end` is inside a character.
slice_to(s, end) ==
    IF \E k \in 0..Len(s) : len(SubSeq(s, 1, k)) = end
    THEN [ok |-> TRUE,
          value |-> SubSeq(s, 1, CHOOSE k \in 0..Len(s) :
                                     len(SubSeq(s, 1, k)) = end)]
    ELSE [ok |-> FALSE, value |-> <<>>]

\* Lines 1478-1494.
truncate_safe(s, max) ==
    IF len(s) <= max
    THEN [ok |-> TRUE, value |-> s]
    ELSE slice_to(s, byte_count_from(s, max, 1, 0))

\* Characters in a text given to truncate_safe.
MaxChars == 4
\* The largest max_bytes given to truncate_safe.
MaxBytes == 5

\* A character of one byte and one of two.
TruncateChars == {"a", "U+00E9"}

TruncateTexts == UNION {[1..n -> TruncateChars] : n \in 0..MaxChars}

InitTruncate ==
    /\ Parked
    /\ NoPrintError
    /\ NoCreateStream
    /\ NoRender
    /\ subject \in TruncateTexts
    /\ max_bytes \in 0..MaxBytes
    /\ truncated = NotTruncated

\* truncate_safe(s, max_bytes) is called.
TruncateSafe ==
    /\ truncated.calls = 0
    /\ truncated' = [truncated EXCEPT !.calls = 1,
                                      !.first = truncate_safe(subject, max_bytes)]
    /\ UNCHANGED <<subject, max_bytes, session, printing, mocking, rendering>>

\* truncate_safe is called on what it has returned, with the same max_bytes.
TruncateSafeAgain ==
    /\ truncated.calls = 1
    /\ truncated.first.ok
    /\ truncated' = [truncated EXCEPT
                         !.calls = 2,
                         !.second = truncate_safe(truncated.first.value,
                                                  max_bytes)]
    /\ UNCHANGED <<subject, max_bytes, session, printing, mocking, rendering>>

NextTruncate ==
    \/ TruncateSafe
    \/ TruncateSafeAgain

SpecTruncate == InitTruncate /\ [][NextTruncate]_vars

\* ------------------------------------------------------------- properties
Ids(list) == [i \in 1..Len(list) |-> list[i].id]

ResultIds(results) == [i \in 1..Len(results) |-> results[i].tool_use_id]

Last(h) == h[Len(h)]

IsPrefix(p, h) == Len(p) <= Len(h) /\ SubSeq(h, 1, Len(p)) = p

StrictlyIncreasing(seq) ==
    \A i, j \in 1..Len(seq) : i < j => seq[i] < seq[j]

NeedsAcceptance(list) == \E i \in 1..Len(list) : list[i].req

\* One Error result for every tool of the list, in the order of the list.
ErrorResults(list) == [i \in 1..Len(list) |-> ToolResult(list[i].id, "Error")]

\* Every assistant turn with tool uses is directly followed by a user turn
\* that has one result for each of its tool use ids, in the same order.
Paired(h) ==
    \A i \in 1..Len(h) :
        (h[i].role = "assistant" /\ h[i].tool_uses # <<>>) =>
            /\ i < Len(h)
            /\ h[i + 1].role = "user"
            /\ ResultIds(h[i + 1].results) = h[i].tool_uses

\* The handler takes an interrupt to PromptUser in this step.
InterruptHandled ==
    /\ state = "Error"
    /\ last_error.kind = "Interrupted"
    /\ state' = "PromptUser"

\* C1: every conversation handed to send_message is paired: each assistant
\* turn with tool uses is directly followed by a user turn with exactly one
\* result for each of its tool use ids, in order.
C1_SentConversationPaired == Paired(sent)

\* C2: a batch is in ExecuteTools only if validate_tools found accept_all or
\* no tool requiring acceptance, or an interactive user answered exactly y or
\* Y to its prompt; without accept_all a non-interactive session executes no
\* batch with a tool requiring acceptance.
C2_InvokeOnlyWhenAccepted ==
    state = "ExecuteTools" =>
        /\ \/ /\ batch.via = "validate"
              /\ batch.accept_all \/ ~NeedsAcceptance(tool_uses.list)
           \/ /\ batch.via = "approval"
              /\ batch.answer \in {"y", "Y"}
              /\ interactive
        /\ (~interactive /\ ~batch.accept_all) =>
               ~NeedsAcceptance(tool_uses.list)

\* A tool requiring acceptance has been invoked after the user's approval.
C2_Witness ==
    /\ state = "ExecuteTools"
    /\ batch.via = "approval"
    /\ ~batch.accept_all
    /\ NeedsAcceptance(tool_uses.list)
    /\ invoked # <<>>

\* C3: once validate_tools has returned NonInteractiveToolApproval, the chat
\* run does not end with ExitCode::SUCCESS.
C3_RefusalExitsNonZero ==
    (refused /\ state = "Returned") => result = "Err"

\* C4: once a tool use of the batch has failed validation, no tool is
\* invoked and the batch is never executed or prompted for; validate_tools
\* completes by attaching the results, sending the conversation and going to
\* HandleResponseStream (only an interrupt or a failed send ends it
\* otherwise, through the error handler).
C4_FailedValidationNeverExecutes ==
    [][(state = "ValidateTools" /\ tool_results # <<>>) =>
           /\ invoked' = invoked
           /\ state' \in {"ValidateTools", "HandleResponseStream", "Error"}
           /\ state' # "ValidateTools" => tool_uses' = NoTools
           /\ state' = "HandleResponseStream" =>
                  /\ Last(history) = UserTurn("", tool_results)
                  /\ sent' = history
           /\ state' = "Error" =>
                  last_error'.kind \in {"Interrupted", "Client"}]_vars

\* A batch of two with one failure has been answered and sent, none invoked.
C4_Witness ==
    /\ state = "HandleResponseStream"
    /\ invoked = <<>>
    /\ Len(sent) >= 2
    /\ Len(sent[Len(sent) - 1].tool_uses) = 2
    /\ Len(Last(sent).results) = 1
    /\ Last(sent).results[1].status = "Error"

\* C5: whenever the error handler has run to its end, fix_history has been
\* applied (nothing is left for it to repair), the next state is PromptUser
\* with tool_uses = None, and the spinner is None.
C5_HandlerPostcondition ==
    [][(state = "Error" /\ state' # "Returned") =>
           /\ state' = "PromptUser"
           /\ tool_uses' = NoTools
           /\ ~spinner'
           /\ ~OffendingTail(history')
           /\ fix_history(history') = history']_vars

\* The first send of an interactive session failed and the handler has run.
C5_Witness ==
    /\ state = "PromptUser"
    /\ interactive
    /\ sends = 0
    /\ history # <<>>
    /\ sent # <<>>
    /\ ~spinner
    /\ tool_uses = NoTools

\* C6 as stated: an interrupt in any of the three raced states reaches
\* PromptUser only after the synthetic assistant turn has been recorded and
\* the in-flight tool uses have been replaced by error results.
C6_EveryInterruptRecordsSyntheticTurn ==
    [][InterruptHandled =>
           \E i \in 1..Len(history') :
               /\ i > Len(history)
               /\ history'[i] = AssistantTurn(InterruptedText, <<>>)]_vars

\* C6 amended: the synthetic assistant turn and the error results are
\* recorded only for an interrupt in ExecuteTools, which carries the batch;
\* an interrupt in ValidateTools or HandleResponseStream reaches PromptUser
\* after fix_history alone, which only drops turns.  In both cases nothing is
\* left for fix_history to repair.
C6_InterruptRepairsByState ==
    [][InterruptHandled =>
           /\ ~OffendingTail(history')
           /\ IF last_error.some
              THEN \/ history' = history
                                   \o <<UserTurn(InterruptReason,
                                                 ErrorResults(last_error.list)),
                                        AssistantTurn(InterruptedText, <<>>)>>
                   \/ /\ Len(history) >= 2
                      /\ Last(history).results # <<>>
                      /\ IsPrefix(history', history)
              ELSE IsPrefix(history', history)]_vars

\* An interrupt of ExecuteTools before any invocation has been handled.
C6_Witness ==
    /\ state = "PromptUser"
    /\ invoked = <<>>
    /\ Len(history) >= 3
    /\ Last(history) = AssistantTurn(InterruptedText, <<>>)
    /\ history[Len(history) - 1].text = InterruptReason
    /\ history[Len(history) - 2].tool_uses # <<>>

C8_InterruptCarriesBatch ==
    [][/\ (state \in Raced /\ state' = "Error"
               /\ last_error'.kind = "Interrupted") =>
              IF state = "ExecuteTools"
              THEN /\ last_error'.some
                   /\ last_error'.list = tool_uses.list
                   /\ Len(last_error'.list) > 0
              ELSE ~last_error'.some /\ last_error'.list = <<>>
       /\ InterruptHandled =>
              /\ tool_uses' = NoTools
              /\ invoked' = invoked
              /\ ~last_error.some => Len(history') <= Len(history)
              /\ (last_error.some /\ Last(history).results = <<>>) =>
                     /\ Len(history') = Len(history) + 2
                     /\ history'[Len(history) + 1].results
                            = ErrorResults(last_error.list)]_vars

\* A batch of two was interrupted after its first tool had been invoked, and
\* both tools have their error result.
C8_Witness ==
    /\ state = "PromptUser"
    /\ tool_uses = NoTools
    /\ Len(invoked) = 1
    /\ Len(history) >= 2
    /\ Last(history) = AssistantTurn(InterruptedText, <<>>)
    /\ Len(history[Len(history) - 1].results) = 2

\* C9 as stated: with pending tools, every input other than exactly y or Y
\* is a new user message: the tools are abandoned with results carrying the
\* input, none is invoked, and the conversation is sent.
C9_EveryOtherInputAbandons ==
    [][(/\ state = "HandleInput"
        /\ UnwrapOrDefault(tool_uses) # <<>>
        /\ input \notin {"y", "Y"}) =>
           /\ history' = history
                  \o <<UserTurn(input, ErrorResults(UnwrapOrDefault(tool_uses)))>>
           /\ invoked' = invoked
           /\ sent' = history']_vars

\* C9 amended: with pending tools, every input that parses as an Ask other
\* than exactly y or Y is a new user message: the tools are abandoned with
\* results carrying the input, none is invoked, and the conversation is
\* sent.
C9_OtherAskAbandons ==
    [][(/\ state = "HandleInput"
        /\ UnwrapOrDefault(tool_uses) # <<>>
        /\ ParseCommand(input) = "Ask"
        /\ input \notin {"y", "Y"}) =>
           /\ history' = history
                  \o <<UserTurn(input, ErrorResults(UnwrapOrDefault(tool_uses)))>>
           /\ invoked' = invoked
           /\ sent' = history'
           /\ tool_uses' = NoTools
           /\ state' \in {"HandleResponseStream", "Error"}
           /\ state' = "Error" => last_error'.kind = "Client"]_vars

\* The user answered the approval prompt with a new message; the pending
\* tools were abandoned with it and the conversation went out.
C9_Witness ==
    /\ state = "HandleResponseStream"
    /\ invoked = <<>>
    /\ sent # <<>>
    /\ Last(sent).text = "hello"
    /\ Last(sent).results # <<>>
    /\ Len(sent) >= 2
    /\ ResultIds(Last(sent).results) = sent[Len(sent) - 1].tool_uses

\* C10: the tool uses of a response are collected, validated and invoked in
\* the order of their arrival (the order of their ids), and the result list
\* attached after execution has the length and the id order of the batch.
C10_ArrivalOrderKept ==
    /\ StrictlyIncreasing(Ids(recv_tools))
    /\ state = "ValidateTools" =>
           /\ StrictlyIncreasing(Ids(tool_uses.list))
           /\ StrictlyIncreasing(Ids(queued_tools))
           /\ StrictlyIncreasing(ResultIds(tool_results))
           /\ {Ids(queued_tools)[i] : i \in 1..Len(queued_tools)}
                  \cup {tool_results[i].tool_use_id : i \in 1..Len(tool_results)}
                  = {tool_uses.list[i].id : i \in 1..idx}
    /\ state = "ExecuteTools" =>
           /\ StrictlyIncreasing(Ids(tool_uses.list))
           /\ ResultIds(tool_results) = SubSeq(Ids(tool_uses.list), 1, idx)
           /\ Len(invoked) >= idx
           /\ SubSeq(invoked, Len(invoked) - idx + 1, Len(invoked))
                  = SubSeq(Ids(tool_uses.list), 1, idx)
           /\ phase # "invoke" =>
                  /\ Last(history).results = tool_results
                  /\ ResultIds(Last(history).results) = Ids(tool_uses.list)

\* A batch of two has been invoked and its results are attached.
C10_Witness ==
    /\ state = "ExecuteTools"
    /\ phase = "telemetry"
    /\ Len(tool_uses.list) = 2
    /\ Len(Last(history).results) = 2

NoDuplicates(seq) ==
    \A i, j \in 1..Len(seq) : i # j => seq[i] # seq[j]

\* C11: in ExecuteTools every tool of the batch is invoked exactly once and
\* in turn, whatever the outcome of the tools before it; each invocation adds
\* one Success or Error result for its tool; the results are attached only
\* after the last tool, then the telemetry is sent, then the conversation,
\* and tool_use_execute completes with HandleResponseStream (only an
\* interrupt or a failed send ends the state otherwise, through the error
\* handler).
C11_EveryToolInvokedOnce ==
    [][state = "ExecuteTools" =>
           /\ NoDuplicates(invoked')
           /\ idx = Len(tool_results)
           /\ phase = "invoke" <=> idx < Len(tool_uses.list)
           /\ invoked' # invoked =>
                  /\ phase = "invoke"
                  /\ invoked' = Append(invoked, tool_uses.list[idx + 1].id)
                  /\ Len(tool_results') = idx + 1
                  /\ SubSeq(tool_results', 1, idx) = tool_results
                  /\ tool_results'[idx + 1].tool_use_id = tool_uses.list[idx + 1].id
                  /\ tool_results'[idx + 1].status \in {"Success", "Error"}
                  /\ state' = "ExecuteTools"
           /\ history' # history =>
                  /\ idx + 1 = Len(tool_uses.list)
                  /\ history' = Append(history, UserTurn("", tool_results'))
                  /\ phase' = "telemetry"
           /\ (phase = "telemetry" /\ state' = "ExecuteTools") =>
                  telemetry' = {} /\ phase' = "send"
           /\ state' \in {"ExecuteTools", "HandleResponseStream", "Error"}
           /\ state' = "HandleResponseStream" =>
                  /\ phase = "send"
                  /\ telemetry = {}
                  /\ ResultIds(tool_results) = Ids(tool_uses.list)
                  /\ Last(history).results = tool_results
                  /\ sent' = history
           /\ state' = "Error" =>
                  last_error'.kind \in {"Interrupted", "Client"}]_vars

\* A batch of two whose first tool failed has been invoked to its end and
\* the conversation with both results has been sent.
C11_Witness ==
    /\ state = "HandleResponseStream"
    /\ Len(invoked) = 2
    /\ sent # <<>>
    /\ ResultIds(Last(sent).results) = invoked
    /\ Last(sent).results[1].status = "Error"
    /\ Last(sent).results[2].status = "Success"

\* try_chat returns in this step, from inside its loop.
LoopReturns ==
    /\ state \notin {"Start", "Returned"}
    /\ state' = "Returned"

\* C12 as stated: the loop of try_chat ends only when the state it consumes
\* is Exit.
C12_ReturnsOnlyOnExit ==
    [][LoopReturns => state = "Exit"]_vars

\* C12 amended: the loop of try_chat ends with Ok only when the state it
\* consumes is Exit or, in non-interactive mode, PromptUser; an error of a
\* state's operation goes to the error handler and does not end the loop;
\* the loop ends with Err only when a write of the error handler fails.
C12_ReturnsOnExitOrNoPrompt ==
    [][/\ LoopReturns =>
              \/ state = "Exit" /\ result' = "Ok"
              \/ state = "PromptUser" /\ ~interactive /\ result' = "Ok"
              \/ state = "Error" /\ last_error.kind # "none" /\ result' = "Err"
       /\ (state' = "Error" /\ state # "Error") =>
              /\ last_error'.kind # "none"
              /\ result' = "running"]_vars

\* A non-interactive session has answered its input and returned at
\* PromptUser.
C12_Witness ==
    /\ state = "Returned"
    /\ ~interactive
    /\ result = "Ok"
    /\ sends >= 1
    /\ ~refused

\* C13: in PromptUser a first EOF only sets the strike (the hint is printed
\* and the prompt is shown again with the same pending tools); Exit follows
\* PromptUser only on an EOF with the strike set, that is after two EOFs in a
\* row; a line read after a single EOF leads to HandleInput like any other;
\* every prompt starts with the strike cleared.
C13_TwoStrikeExit ==
    [][/\ ctrl_c => state = "PromptUser" /\ interactive
       /\ (state = "PromptUser" /\ state' = "PromptUser") =>
              /\ ~ctrl_c /\ ctrl_c'
              /\ UNCHANGED <<tool_uses, skip_printing_tools, env, ctx, aux>>
       /\ (state = "PromptUser" /\ state' = "Exit") => ctrl_c
       /\ (state = "PromptUser" /\ state' = "HandleInput") =>
              /\ input' \in Inputs
              /\ lines' = lines + 1
              /\ tool_uses'.list = UnwrapOrDefault(tool_uses)
       /\ (state # "PromptUser" /\ state' = "PromptUser") => ~ctrl_c']_vars

\* At an approval prompt reached after a line of input, one EOF has been
\* read: the tools are still pending and the session goes on.
C13_Witness ==
    /\ state = "PromptUser"
    /\ ctrl_c
    /\ lines >= 1
    /\ UnwrapOrDefault(tool_uses) # <<>>

\* C14: with an initial input the first state the loop consumes is
\* HandleInput with that input and no pending tools; without one it is
\* PromptUser with no pending tools; the initial input is taken when the
\* loop is entered and never handled again: later inputs are lines read at
\* the prompt (or the text /issue stands for).
C14_InitialInputFirst ==
    [][/\ (state = "Start" /\ state' # "Returned") =>
              /\ initial_input' = NoInput
              /\ tool_uses' = NoTools
              /\ lines' = 0
              /\ IF initial_input.some
                 THEN state' = "HandleInput" /\ input' = initial_input.text
                 ELSE state' = "PromptUser"
       /\ state \notin {"Start", "Returned"} => ~initial_input.some
       /\ state # "Start" => initial_input' = initial_input
       /\ (state # "Start" /\ state' = "HandleInput") =>
              \/ state = "PromptUser" /\ lines' = lines + 1
              \/ state = "HandleInput" /\ ParseCommand(input) = "Issue"
                     /\ input' \in {IssueText, IssueText \o ": broken"}]_vars

\* The loop has been entered with the initial input, before any line is read.
C14_Witness ==
    /\ state = "HandleInput"
    /\ input = "hello"
    /\ lines = 0
    /\ tool_uses = NoTools
    /\ initial_input = NoInput

\* handle_response waits in recv and the stream's next item is ev.
AtRecv(ev) ==
    /\ state = "HandleResponseStream"
    /\ phase = "recv"
    /\ stream # <<>>
    /\ Head(stream).ev = ev

\* C15: a StreamTimeout or UnexpectedToolUseEos is not returned as an error:
\* handle_response appends the repair turns (the synthetic assistant message
\* and the request to split the work; the partial assistant message and an
\* Error result for its tool use id), sends the telemetry and the
\* conversation and yields HandleResponseStream; the error handler runs
\* then only for an interrupt or a failed send.  Every other receive error
\* goes to the error handler and leaves the conversation as it is.
C15_RecoverableRecvErrors ==
    [][/\ AtRecv("StreamTimeout") =>
              \/ state' = "Error" /\ last_error'.kind = "Interrupted"
              \/ /\ state' = "HandleResponseStream"
                 /\ phase' = "telemetry"
                 /\ history' = history
                        \o <<AssistantTurn(TimeoutAssistantText, <<>>),
                             UserTurn(TimeoutUserText, <<>>)>>
       /\ AtRecv("UnexpectedToolUseEos") =>
              \/ state' = "Error" /\ last_error'.kind = "Interrupted"
              \/ /\ state' = "HandleResponseStream"
                 /\ phase' = "telemetry"
                 /\ Len(history') = Len(history) + 2
                 /\ history'[Len(history) + 1].role = "assistant"
                 /\ history'[Len(history) + 1].tool_uses = <<Head(stream).id>>
                 /\ history'[Len(history) + 2]
                        = UserTurn("", <<ToolResult(Head(stream).id, "Error")>>)
       /\ AtRecv("Other") =>
              /\ state' = "Error"
              /\ last_error'.kind \in {"ResponseStream", "Interrupted"}
              /\ history' = history
       /\ (state = "HandleResponseStream" /\ phase = "telemetry") =>
              \/ state' = "Error" /\ last_error'.kind = "Interrupted"
              \/ /\ state' = "HandleResponseStream"
                 /\ phase' = "send"
                 /\ history' = history
       /\ (state = "HandleResponseStream" /\ phase = "send") =>
              \/ state' = "Error" /\ last_error'.kind \in {"Interrupted", "Client"}
              \/ /\ state' = "HandleResponseStream"
                 /\ phase' = "recv"
                 /\ sent' = history
                 /\ history' = history]_vars

\* After an unexpected end of a tool use the conversation with the partial
\* message and the Error result has been sent and the next response is read.
C15_Witness ==
    /\ state = "HandleResponseStream"
    /\ phase = "recv"
    /\ sends = 2
    /\ Len(sent) >= 2
    /\ sent[Len(sent) - 1].text = "partial"
    /\ Last(sent).results = <<ToolResult(sent[Len(sent) - 1].tool_uses[1], "Error")>>

\* validate_tools has sent the telemetry of a failed batch, or a tool
\* invocation has failed, in this step.
ToolFailureStep ==
    \/ /\ state = "ValidateTools"
       /\ phase = "telemetry"
       /\ state' = "ValidateTools"
    \/ /\ state = "ExecuteTools"
       /\ invoked' # invoked
       /\ Last(tool_results').status = "Error"

\* C16: on a validation failure of a batch and on a failed tool invocation
\* an Idle tool_use_status becomes RetryInProgress with the message id of the
\* current assistant turn (the id of the last response), and a
\* RetryInProgress(id) stays as it is.
C16_RetryKeepsFirstId ==
    [][ToolFailureStep =>
           /\ message_id = sends
           /\ message_id > 0
           /\ tool_use_status' =
                  IF tool_use_status.retry
                  THEN tool_use_status
                  ELSE RetryInProgress(message_id)]_vars

\* A second batch has failed validation while the retry of the first was in
\* progress: the status still carries the first message id.
C16_Witness ==
    /\ state = "ValidateTools"
    /\ phase = "send"
    /\ message_id = 2
    /\ tool_use_status = RetryInProgress(1)

\* C17: /clear leaves a conversation of length 0 and goes to PromptUser with
\* no pending tools; conversation_id has the same value in every state of a
\* session, /clear included.
C17_ClearKeepsConversationId ==
    [][/\ conversation_id' = conversation_id
       /\ (state = "HandleInput" /\ ParseCommand(input) = "Clear") =>
              /\ Len(history') = 0
              /\ state' = "PromptUser"
              /\ tool_uses' = NoTools
              /\ UNCHANGED <<accept_all, tool_use_status, sent, sends>>]_vars

\* A conversation that had been answered by the model has been cleared.
C17_Witness ==
    /\ state = "PromptUser"
    /\ skip_printing_tools
    /\ tool_uses = NoTools
    /\ sends >= 1
    /\ history = <<>>
    /\ conversation_id = "conversation-1"

\* C18: while the session lasts, accept_all changes in the steps that handle
\* /acceptall and in no other; such a step negates it (so two of them in a
\* row restore it), goes to PromptUser with the pending tools kept, and
\* leaves the conversation as it is.
C18_AcceptAllToggles ==
    [][state' # "Returned" =>
           /\ accept_all' # accept_all <=>
                  (state = "HandleInput" /\ ParseCommand(input) = "AcceptAll")
           /\ (state = "HandleInput" /\ ParseCommand(input) = "AcceptAll") =>
                  /\ accept_all' = ~accept_all
                  /\ state' = "PromptUser"
                  /\ tool_uses' = SomeTools(UnwrapOrDefault(tool_uses))
                  /\ history' = history
                  /\ sent' = sent]_vars

\* Tools wait for approval, so they were validated with accept_all off, and
\* /acceptall has since switched it on.
C18_Witness ==
    /\ state = "PromptUser"
    /\ UnwrapOrDefault(tool_uses) # <<>>
    /\ accept_all
    /\ skip_printing_tools
    /\ history # <<>>

\* C19: when Command::parse rejects the input, handle_input goes to
\* PromptUser and leaves the conversation, the pending tool uses,
\* accept_all, tool_use_status, the spinner and the telemetry map as they
\* were, and nothing is sent to the model.
C19_ParseErrorChangesNothing ==
    [][(state = "HandleInput" /\ ParseCommand(input) = "Err") =>
           /\ state' = "PromptUser"
           /\ tool_uses' = tool_uses
           /\ UNCHANGED <<history, message_id, accept_all, tool_use_status,
                          spinner, telemetry, sent, sends, invoked>>]_vars

\* A rejected command is being handled while tools wait for approval.
C19_Witness ==
    /\ state = "HandleInput"
    /\ ParseCommand(input) = "Err"
    /\ UnwrapOrDefault(tool_uses) # <<>>
    /\ history # <<>>
    /\ telemetry # {}

\* C20: a non-interactive session reads no line from the input source: the
\* only input it handles is the initial input, and when the loop comes to
\* PromptUser try_chat returns Ok, so the session runs one user turn.
C20_NonInteractiveReadsNoLine ==
    [][~interactive =>
           /\ lines' = 0
           /\ ~ctrl_c'
           /\ state = "PromptUser" => state' = "Returned" /\ result' = "Ok"
           /\ state' = "HandleInput" =>
                  \/ state = "Start" /\ initial_input.some
                  \/ state = "HandleInput" /\ ParseCommand(input) = "Issue"
           /\ state' = "Exit" => state = "HandleInput"]_vars

\* A non-interactive session has run its one turn, tools included, and has
\* returned without reading a line.
C20_Witness ==
    /\ state = "Returned"
    /\ ~interactive
    /\ result = "Ok"
    /\ lines = 0
    /\ sends = 2
    /\ invoked # <<>>

\* C21: on every path by which the session ends (Exit, the return from
\* PromptUser in non-interactive mode, an error returned by try_chat) the
\* drop of the ChatContext leaves no spinner, the cursor visible, colours and
\* attributes reset and nothing of the output held back.
C21_TerminalRestoredAtExit ==
    state = "Returned" =>
        /\ ~spinner
        /\ ~output.hidden
        /\ ~output.styled
        /\ ~output.queued

\* The conversations fix_history is given: the history as it stands, as the
\* error handler has made it before line 524, and as it was last sent.
RepairInputs == {history, InterruptRepair(history, last_error), sent}

HandleResponseReturnsOk ==
    /\ state = "HandleResponseStream"
    /\ \/ state' \notin {"HandleResponseStream", "Error"}
       \/ state' = "HandleResponseStream" /\ phase = "send" /\ phase' = "recv"

\* C24 as stated: handle_response returns Ok only after EndStream has been
\* received, and the next state is ValidateTools or PromptUser.
C24_OkOnlyAfterEndStream ==
    [][HandleResponseReturnsOk =>
           /\ AtRecv("EndStream")
           /\ state' \in {"ValidateTools", "PromptUser"}]_vars

\* C24 amended: handle_response returns ValidateTools or PromptUser only
\* when EndStream has been received, and then the assistant message has been
\* pushed exactly once (no event before it touches the conversation); the
\* next state is ValidateTools(list) if and only if a ToolUse event was
\* received in that stream, with list being those tool uses in the order of
\* arrival (the tool uses of the message), and otherwise PromptUser with no
\* pending tools.  Its only other Ok is HandleResponseStream, after a
\* StreamTimeout or UnexpectedToolUseEos and the conversation sent again.
C24_EndStreamDecidesNextState ==
    [][(state = "HandleResponseStream" /\ phase = "recv") =>
           /\ state' \in {"HandleResponseStream", "ValidateTools",
                          "PromptUser", "Error"}
           /\ state' \in {"ValidateTools", "PromptUser"} =>
                  /\ AtRecv("EndStream")
                  /\ history' = Append(history,
                                       AssistantTurn("response", Head(stream).ids))
                  /\ message_id' = Head(stream).mid
                  /\ state' = "ValidateTools" <=> recv_tools # <<>>
                  /\ state' = "ValidateTools" =>
                         /\ tool_uses' = SomeTools(recv_tools)
                         /\ Ids(recv_tools) = Head(stream).ids
                  /\ state' = "PromptUser" =>
                         /\ tool_uses' = NoTools
                         /\ Head(stream).ids = <<>>
           /\ (state' = "HandleResponseStream" /\ phase' = "recv") =>
                  /\ history' = history
                  /\ IF AtRecv("ToolUse")
                     THEN recv_tools' = Append(recv_tools, ToolUse(Head(stream).id))
                     ELSE recv_tools' = recv_tools
           /\ (state' = "HandleResponseStream" /\ phase' # "recv") =>
                  /\ phase' = "telemetry"
                  /\ AtRecv("StreamTimeout") \/ AtRecv("UnexpectedToolUseEos")]_vars

\* A response with two tool uses has ended: both are to be validated, in
\* the order of the message that was pushed.
C24_Witness ==
    /\ state = "ValidateTools"
    /\ idx = 0
    /\ Len(tool_uses.list) = 2
    /\ Last(history).role = "assistant"
    /\ Last(history).tool_uses = Ids(tool_uses.list)

\* The inputs /issue is lowered to, without and with a text.
IssueInputs ==
    {"I would like to report an issue or make a feature request",
     "I would like to report an issue or make a feature request: broken"}

\* C25: /issue [text] re-enters HandleInput with the input "I would like to
\* report an issue or make a feature request", followed by ": text" when a
\* text is given, and with the pending tool uses; nothing else changes in
\* that step.  The input is then handled as an Ask: the next step leaves
\* HandleInput with one user turn added (the message, or the pending tools
\* abandoned with it) and the conversation handed to send_message once.
C25_IssueLoweredToAsk ==
    [][/\ (state = "HandleInput" /\ ParseCommand(input) = "Issue") =>
              /\ state' = "HandleInput"
              /\ input' = IF input = "/issue"
                          THEN "I would like to report an issue or make a feature request"
                          ELSE "I would like to report an issue or make a feature request: broken"
              /\ tool_uses' = SomeTools(UnwrapOrDefault(tool_uses))
              /\ UNCHANGED <<ctx, aux>>
       /\ (state = "HandleInput" /\ input \in IssueInputs) =>
              /\ ParseCommand(input) = "Ask"
              /\ state' \in {"HandleResponseStream", "Error"}
              /\ history' = Append(history,
                                   UserTurn(input,
                                            ErrorResults(UnwrapOrDefault(tool_uses))))
              /\ sent' = history'
              /\ sends' \in {sends, sends + 1}
              /\ state' = "HandleResponseStream" <=> sends' = sends + 1
              /\ state' = "Error" => last_error'.kind = "Client"
              /\ invoked' = invoked
       /\ (state' = "HandleInput" /\ input' \in IssueInputs) =>
              (state = "HandleInput" /\ ParseCommand(input) = "Issue")]_vars

\* /issue with a text was typed at the approval prompt: the lowered input
\* went out as a user message, with the pending tools abandoned.
C25_Witness ==
    /\ state = "HandleResponseStream"
    /\ sent # <<>>
    /\ Last(sent).text
           = "I would like to report an issue or make a feature request: broken"
    /\ Last(sent).results # <<>>
    /\ invoked = <<>>

\* C26: an input starting with `!` leads to PromptUser with no pending
\* tools whatever the shell's exit status, and also when the shell could not
\* be started; nothing is sent to the model, no tool is invoked, and the
\* conversation, accept_all and tool_use_status are as they were.
C26_ShellEscapeChangesNothing ==
    [][(state = "HandleInput" /\ ParseCommand(input) = "Execute") =>
           /\ state' = "PromptUser"
           /\ tool_uses' = NoTools
           /\ ~skip_printing_tools'
           /\ UNCHANGED <<history, message_id, accept_all, tool_use_status,
                          telemetry, spinner, sent, sends, invoked>>]_vars

\* `!ls` was typed at the approval prompt of an interactive session: the
\* prompt is back, the tools are no longer pending, and the two newlines
\* around the command are still queued.
C26_Witness ==
    /\ state = "PromptUser"
    /\ interactive
    /\ tool_uses = NoTools
    /\ output.queued
    /\ lines >= 1
    /\ history # <<>>
    /\ Last(history).tool_uses # <<>>

\* The text holds no character outside ASCII and no escape sequence.
Sanitized(text) ==
    \A i \in 1..Len(text) :
        /\ text[i] \notin NonAsciiChars
        /\ EscapeSequenceEnd(text, i) = 0

\* C27: every text the error handler gives to the transcript is free of
\* ANSI escape sequences and of characters outside ASCII, whatever the kind
\* of the error, a QuotaBreach with the server's message included.
C27_TranscriptTextsSanitized ==
    \A i \in 1..Len(transcript) : Sanitized(transcript[i])

RecvErrors == {"StreamTimeout", "UnexpectedToolUseEos", "Other"}

\* C28: when handle_response receives an error that carries a request id,
\* whether it recovers from the error (StreamTimeout, UnexpectedToolUseEos)
\* or returns it, the id is appended to failed_request_ids in that step,
\* before the error handler or the repair runs; and while the session lasts
\* no step, /clear included, takes an entry away or changes one.
C28_FailedRequestIdsGrow ==
    [][/\ \A ev \in RecvErrors :
              (/\ AtRecv(ev)
               /\ Head(stream).request_id.some
               /\ ~(state' = "Error" /\ last_error'.kind = "Interrupted")) =>
                  failed_request_ids'
                      = Append(failed_request_ids, Head(stream).request_id.id)
       /\ state' # "Returned" =>
              IsPrefix(failed_request_ids, failed_request_ids')]_vars

\* The first response timed out, the second one failed for good, both with
\* a request id, and the conversation has been cleared since.
C28_Witness ==
    /\ state = "PromptUser"
    /\ skip_printing_tools
    /\ history = <<>>
    /\ failed_request_ids = <<1, 2>>

\* The events of a stream are those of the response: one
\* AssistantResponseEvent for a string, four ToolUseEvents for an object.
RECURSIVE ExpandedFrom(_, _)
ExpandedFrom(response, st) ==
    IF response = <<>> THEN st = <<>>
    ELSE IF Head(response).type = "String"
    THEN /\ Len(st) >= 1
         /\ st[1] = AssistantResponseEvent(Head(response).text)
         /\ ExpandedFrom(Tail(response), Tail(st))
    ELSE /\ Len(st) >= 4
         /\ \A i \in 1..4 :
                /\ st[i].type = "ToolUseEvent"
                /\ st[i].tool_use_id = Head(response).tool_use_id
                /\ st[i].name = Head(response).name
         /\ st[1].input = None /\ st[1].stop = None
         /\ st[2].input.some /\ st[2].stop = None
         /\ st[3].input.some /\ st[3].stop = None
         /\ st[4].input = None /\ st[4].stop = Some(TRUE)
         /\ len(st[2].input.value) = len(to_string(Head(response).args)) \div 2
         /\ st[2].input.value \o st[3].input.value
                = to_string(Head(response).args)
         /\ ExpandedFrom(Tail(response), SubSeq(st, 5, Len(st)))

\* C29: create_stream turns every script into a mock with one stream for a
\* response, a string of the response being one AssistantResponseEvent and
\* an object {tool_use_id, name, args} four ToolUseEvents with its id and
\* name, in the order of the script: start without input and stop, the first
\* half of the serialized args, the second half, stop without input; the two
\* halves joined are the serialized args.
C29_ScriptExpanded ==
    mock.status # "none" =>
        /\ mock.status = "mock"
        /\ Len(mock.streams) = Len(model_responses)
        /\ \A i \in 1..Len(model_responses) :
               ExpandedFrom(model_responses[i], mock.streams[i])

\* The text fragments of the events, joined in their order.
RECURSIVE Concatenated(_)
Concatenated(evs) ==
    IF evs = <<>> THEN <<>>
    ELSE (IF Head(evs).ev = "AssistantText" THEN Head(evs).text ELSE <<>>)
             \o Concatenated(Tail(evs))

\* The same with a newline in the place of every ToolUseStart and of the
\* end of the stream.
RECURSIVE WithNewlines(_)
WithNewlines(evs) ==
    IF evs = <<>> THEN <<>>
    ELSE (IF Head(evs).ev = "AssistantText" THEN Head(evs).text
          ELSE IF Head(evs).ev \in {"ToolUseStart", "EndStream"} THEN <<"\n">>
          ELSE <<>>) \o WithNewlines(Tail(evs))

\* What handle_response does to buf and offset, whatever buf holds: buf is
\* only appended to, offset stays within buf and never decreases, the inner
\* loop goes on only after the renderer has consumed something of
\* buf[offset..], and the end of the stream appends one newline, after which
\* buf stays as it is.
BufferDiscipline ==
    /\ IsPrefix(buf, buf')
    /\ 0 <= offset /\ offset <= offset' /\ offset' <= Len(buf')
    /\ (at = "render" /\ at' = "render") =>
           /\ offset' > offset
           /\ buf' = buf
    /\ (at = "render" /\ offset' = offset) => at' \in {"recv", "returned"}
    /\ (~ended /\ ended') => buf' = Append(buf, "\n")
    /\ ended => (ended' /\ buf' = buf)

\* C30 as stated: with that, buf is the text fragments received so far in
\* their order of arrival, followed by the one sentinel newline once the
\* stream has ended, so that the rendered text buf[..offset] is a prefix of
\* the concatenated fragments and the sentinel.
C30_RenderedPrefixOfFragments ==
    [][/\ BufferDiscipline
       /\ buf' = Concatenated(arrived')
                     \o (IF ended' THEN <<"\n">> ELSE <<>>)]_vars

\* C30, amended: with that, buf is the text fragments received so far in
\* their order of arrival with a newline where a ToolUseStart arrived and
\* the sentinel newline once the stream has ended, and the rendered text
\* buf[..offset] is a prefix of it.
C30_RenderedPrefixOfBuffer ==
    [][/\ BufferDiscipline
       /\ buf' = WithNewlines(arrived')
       /\ IsPrefix(SubSeq(buf', 1, offset'), WithNewlines(arrived'))]_vars

\* A response with text and a tool use has ended and is rendered to its
\* last byte.
C30_Witness ==
    /\ at = "returned"
    /\ ended
    /\ offset = Len(buf)
    /\ \E i, j \in 1..Len(arrived) :
           /\ arrived[i].ev = "AssistantText"
           /\ arrived[j].ev = "ToolUseStart"
    /\ Len(buf) > Len(Concatenated(arrived)) + 1

InterruptRaised == state = "Error" /\ last_error.kind = "Interrupted"

\* C31: the interrupt source is raced in ValidateTools, ExecuteTools and
\* HandleResponseStream only.  A step taken in Start, PromptUser or
\* HandleInput, with the send_message or the subshell that HandleInput
\* waits for, never ends in ChatError::Interrupted: it ends as the operation
\* ends; and every ChatError::Interrupted comes from one of the three states.
C31_InterruptOnlyWhereRaced ==
    [][/\ state \in {"Start", "PromptUser", "HandleInput"} =>
              ~(state' = "Error" /\ last_error'.kind = "Interrupted")
       /\ (~InterruptRaised /\ InterruptRaised') =>
              state \in {"ValidateTools", "ExecuteTools", "HandleResponseStream"}
       /\ (state = "HandleInput" /\ ParseCommand(input) = "Execute") =>
              state' = "PromptUser"
       /\ (state = "HandleInput" /\ state' = "Error") =>
              last_error'.kind \in {"Client", "Custom"}]_vars

\* HandleInput has waited for send_message and got its response; the
\* interrupt can be taken from here on.
C31_Witness ==
    /\ state = "HandleResponseStream"
    /\ phase = "recv"
    /\ batch = NoBatch
    /\ sends = 1
    /\ Len(history) = 1
    /\ ENABLED Interrupt

\* C32: the list that ValidateTools carries and the list that ExecuteTools
\* carries are never empty.  ExecuteTools is entered from ValidateTools with
\* the whole batch validated, or from HandleInput on `y` / `Y` with the
\* pending list, which is not empty, and from nowhere else.
C32_ToolListsNeverEmpty ==
    [][/\ state' \in {"ValidateTools", "ExecuteTools"} =>
              tool_uses'.some /\ tool_uses'.list # <<>>
       /\ (state # "ExecuteTools" /\ state' = "ExecuteTools") =>
              \/ /\ state = "ValidateTools"
                 /\ Ids(tool_uses'.list) = Ids(tool_uses.list)
                 /\ tool_results = <<>>
              \/ /\ state = "HandleInput"
                 /\ input \in {"y", "Y"}
                 /\ tool_uses.some
                 /\ tool_uses.list # <<>>
                 /\ tool_uses'.list = tool_uses.list]_vars

\* Both ways into ExecuteTools have been taken: the second batch of the
\* session runs on the user's `y`, the first one ran without being asked for.
C32_Witness ==
    /\ state = "ExecuteTools"
    /\ batch.via = "approval"
    /\ Len(tool_uses.list) = MaxTools
    /\ invoked # <<>>

\* C33: /help, /acceptall, /profile and /context entered while tool uses are
\* pending keep the pending list and go back to PromptUser with
\* skip_printing_tools set; nothing is sent to the model and the history
\* stays as it is.  The line the prompt reads next is handled with the same
\* pending list, so `y` runs exactly that batch.
C33_MetaCommandsKeepPending ==
    [][/\ ( /\ state = "HandleInput"
            /\ input \in {"/help", "/acceptall", "/profile list",
                          "/context show"}
            /\ tool_uses.some
            /\ tool_uses.list # <<>> ) =>
              /\ state' = "PromptUser"
              /\ tool_uses' = tool_uses
              /\ skip_printing_tools'
              /\ sends' = sends
              /\ history' = history
       /\ (state = "PromptUser" /\ state' = "HandleInput") =>
              UnwrapOrDefault(tool_uses') = UnwrapOrDefault(tool_uses)
       /\ ( /\ state = "HandleInput"
            /\ input \in {"y", "Y"}
            /\ tool_uses.some
            /\ tool_uses.list # <<>> ) =>
              state' = "ExecuteTools" /\ tool_uses' = tool_uses]_vars

\* /acceptall was entered while tool uses were waiting for the user's answer:
\* they are still pending although nothing asks for an answer any more.
C33_Witness ==
    /\ state = "PromptUser"
    /\ skip_printing_tools
    /\ accept_all
    /\ tool_uses.some
    /\ Len(tool_uses.list) = MaxTools

\* The step handles an Ask that is no approval: a new user message.
NewUserMessage ==
    /\ state = "HandleInput"
    /\ ParseCommand(input) = "Ask"
    /\ ~(input \in {"y", "Y"} /\ UnwrapOrDefault(tool_uses) # <<>>)

SendMessageCalled ==
    \/ sends' = sends + 1
    \/ state' = "Error" /\ last_error'.kind = "Client"

\* C35: whenever send_message is called the telemetry map is empty: the map
\* is drained before every send and nothing is inserted between the drain
\* and the send.  The map only changes by being emptied or by the insertion
\* of one event that validate_tools makes for a tool use it does not hold
\* yet, so no event is dispatched twice.
C35_TelemetryEmptyAtSend ==
    [][/\ SendMessageCalled => telemetry' = {}
       /\ phase = "send" => telemetry = {}
       /\ telemetry' # telemetry =>
              \/ telemetry' = {}
              \/ /\ state = "ValidateTools"
                 /\ idx < Len(tool_uses.list)
                 /\ tool_uses.list[idx + 1].id \notin telemetry
                 /\ telemetry' = telemetry \cup {tool_uses.list[idx + 1].id}]_vars

\* The events of an executed batch have been dispatched and the conversation
\* with the results is about to be sent.
C35_Witness ==
    /\ state = "ExecuteTools"
    /\ phase = "send"
    /\ Len(invoked) = MaxTools
    /\ telemetry = {}

\* C36: a spinner is active only in interactive mode, and none is active
\* while the driver waits in PromptUser for a line of user input (every
\* response of the model delivers a ToolUse or an error after a ToolUseStart
\* before it ends).
C36_NoSpinnerAtPrompt ==
    /\ spinner => interactive
    /\ state = "PromptUser" => ~spinner

\* The last response the session may get has ended without a tool use: the
\* "Thinking..." spinner of its request is gone and the driver prompts.
C36_Witness ==
    /\ state = "PromptUser"
    /\ interactive
    /\ sends = MaxSends
    /\ tool_uses = NoTools
    /\ ~skip_printing_tools
    /\ ~spinner

\* C37: `y` or `Y` entered when no tool uses are pending approves nothing:
\* it is appended to the conversation as an ordinary user message, the
\* conversation is sent to the model, and no tool is executed.
C37_YesWithoutPendingIsMessage ==
    [][( /\ state = "HandleInput"
         /\ input \in {"y", "Y"}
         /\ UnwrapOrDefault(tool_uses) = <<>> ) =>
           /\ history' = Append(history, UserTurn(input, <<>>))
           /\ sent' = history'
           /\ invoked' = invoked
           /\ state' \in {"HandleResponseStream", "Error"}
           /\ state' = "HandleResponseStream" => sends' = sends + 1
           /\ state' = "Error" => last_error'.kind = "Client"]_vars

\* The model answers a conversation whose last turn is the user's `y`, sent
\* as a plain message when nothing was pending.
C37_Witness ==
    /\ state = "HandleResponseStream"
    /\ sent # <<>>
    /\ Last(sent) \in {UserTurn("y", <<>>), UserTurn("Y", <<>>)}
    /\ Len(sent) >= 3

\* The response a successful send_message brings ends with EndStream and has
\* no tool use and no receive error in it.
PlainResponse ==
    sends' = sends + 1 =>
        stream' \in {TextEvents(k) \o <<Event("EndStream", 0, <<>>, sends')>> :
                        k \in 0..1}

\* try_chat has returned the error of a write that failed in its error
\* handler.
HandlerWriteFailed == state = "Returned" /\ result = "Err"

\* C38 as stated: in an interactive session without interrupts, under weak
\* fairness of the driver, if from some point on every response is plain,
\* then from ValidateTools, ExecuteTools and HandleResponseStream the driver
\* eventually reaches PromptUser.
C38_EventuallyPromptUser ==
    <>[][PlainResponse]_vars =>
        [](state \in {"ValidateTools", "ExecuteTools", "HandleResponseStream"}
               => <>(state = "PromptUser"))

\* C38 amended: under the same conditions the driver eventually reaches
\* PromptUser, unless a write of the error handler to the output fails and
\* try_chat returns that error.
C38_EventuallyPromptUserOrWriteError ==
    <>[][PlainResponse]_vars =>
        [](state \in {"ValidateTools", "ExecuteTools", "HandleResponseStream"}
               => <>(state = "PromptUser" \/ HandlerWriteFailed))

\* The driver is back at the prompt after as many responses as the session
\* may get, a tool round among them.
C38_Witness ==
    /\ state = "PromptUser"
    /\ interactive
    /\ sends = MaxSends
    /\ rounds = MaxRounds
    /\ invoked # <<>>

\* C39: truncate_safe(s, max_bytes) returns s when s has at most max_bytes
\* bytes, and else the longest prefix of s that ends where a character ends
\* and has at most max_bytes bytes; what it returns is a prefix of s in
\* every case, and truncate_safe of it with the same max_bytes is itself.
C39_TruncateSafeLongestPrefix ==
    /\ truncated.calls >= 1 =>
           /\ truncated.first.ok
           /\ IsPrefix(truncated.first.value, subject)
           /\ len(subject) <= max_bytes => truncated.first.value = subject
           /\ len(subject) > max_bytes =>
                  /\ len(truncated.first.value) <= max_bytes
                  /\ \A k \in 0..Len(subject) :
                         len(SubSeq(subject, 1, k)) <= max_bytes =>
                             k <= Len(truncated.first.value)
    /\ truncated.calls = 2 => truncated.second = truncated.first

\* A text was cut before a character of two bytes of which only the first
\* would have fitted, and the second call has been made on the result.
C39_Witness ==
    /\ truncated.calls = 2
    /\ len(subject) > max_bytes
    /\ truncated.first.value # <<>>
    /\ len(truncated.first.value) < max_bytes

====
